---- MODULE Spec2Model ----
(***************************************************************************)
(* Model of the validation orchestrator of mcpdir: the create route        *)
(* (validate/check), the supply-secrets route (validate/[id]/credentials), *)
(* the cancel and admin routes, the GitHub Actions worker                  *)
(* (scripts/run-validation.ts) and the batch validator                     *)
(* (scripts/validate-servers.ts).  The reads of a handler, each of its      *)
(* writes to a table and each run of a candidate are separate steps, so    *)
(* concurrent invocations interleave between their reads and their writes  *)
(* as the Node event loop lets them.  The insert into the audit log that   *)
(* follows a write belongs to the step of that write: no handler reads the *)
(* audit log.                                                              *)
(***************************************************************************)
EXTENDS Integers, Sequences, FiniteSets, Bags, TLC

(***************************************************************************)
(* Bounds of the model.                                                    *)
(***************************************************************************)
\* invocations (create, supply, cancel, admin, batch) started after Init
MaxCalls == 2
\* rows the manual_validations table may hold
MaxRequests == 2
\* invocations in flight at the moment a further one is accepted
MaxInFlight == 2

(***************************************************************************)
(* Strings are sequences of one-character strings, so that startsWith,     *)
(* includes, slice, split and toLowerCase are computed, not assumed.       *)
(* The backquote character is written Backquote.                           *)
(***************************************************************************)
NoString == << >>

Backquote == "backquote"

StartsWith(s, p) ==
  /\ Len(p) <= Len(s)
  /\ SubSeq(s, 1, Len(p)) = p

Includes(s, p) ==
  \E i \in 1..(Len(s) - Len(p) + 1) : SubSeq(s, i, i + Len(p) - 1) = p

Slice(s, n) == SubSeq(s, n + 1, Len(s))

LowerChar(ch) ==
  CASE ch = "F" -> "f"
    [] ch = "O" -> "o"
    [] OTHER -> ch

ToLowerCase(s) == [i \in 1..Len(s) |-> LowerChar(s[i])]

\* first element of s.split(" "): the characters before the first space
FirstPart(s) ==
  IF \E i \in 1..Len(s) : s[i] = " "
    THEN LET k == CHOOSE i \in 1..Len(s) :
                    /\ s[i] = " "
                    /\ \A j \in 1..(i - 1) : s[j] # " "
         IN SubSeq(s, 1, k - 1)
    ELSE s

NpxPrefix == <<"n", "p", "x", " ", "-", "y", " ">>
UvxPrefix == <<"u", "v", "x", " ">>
PythonPrefix == <<"p", "y", "t", "h", "o", "n", " ">>

\* check/route.ts:61
dangerousPatterns ==
  { <<"|">>, <<"&", "&">>, <<"|", "|">>, <<";">>, <<Backquote>>, <<"$", "(">>,
    <<"$", "{">>, <<">">>, <<"<">>, <<"\\", "n">> }

\* the three patterns the command-safety property names
ForbiddenPatterns == { <<";">>, <<Backquote>>, <<"$", "(">> }

HasForbidden(command) == \E p \in ForbiddenPatterns : Includes(command, p)

\* the package test of validateInstallCommand (check/route.ts:79 and :92)
PackageMatches(cmdPackage, normalizedCommand, normalizedPackage) ==
  \/ cmdPackage = normalizedPackage
  \/ Includes(normalizedCommand, normalizedPackage)

\* validateInstallCommand(command, packageName).valid
validateInstallCommand(command, packageName) ==
  /\ StartsWith(command, NpxPrefix) \/ StartsWith(command, UvxPrefix)
  /\ \A pattern \in dangerousPatterns : ~Includes(command, pattern)
  /\ packageName # NoString =>
       /\ StartsWith(command, NpxPrefix) =>
            PackageMatches(ToLowerCase(FirstPart(Slice(command, 7))),
                           ToLowerCase(command), ToLowerCase(packageName))
       /\ StartsWith(command, UvxPrefix) =>
            PackageMatches(ToLowerCase(FirstPart(Slice(command, 4))),
                           ToLowerCase(command), ToLowerCase(packageName))

\* the token after the npx -y or uvx prefix
CommandPackage(command) ==
  IF StartsWith(command, NpxPrefix) THEN FirstPart(Slice(command, 7))
  ELSE IF StartsWith(command, UvxPrefix) THEN FirstPart(Slice(command, 4))
  ELSE NoString

\* docker-validator.ts:24
isPythonCommand(command) ==
  StartsWith(command, UvxPrefix) \/ StartsWith(command, PythonPrefix)

(***************************************************************************)
(* Inputs.                                                                 *)
(***************************************************************************)
CmdFoo     == NpxPrefix \o <<"f", "o", "o">>
CmdEvilFoo == NpxPrefix \o <<"e", "v", " ", "f", "o", "o">>
CmdBar     == NpxPrefix \o <<"b", "a", "r">>
CmdSemi    == NpxPrefix \o <<"f", "o", "o", ";", "i", "d">>
CmdSubst   == NpxPrefix \o <<"f", "o", "o", " ", "$", "(", "i", "d", ")">>
CmdTick    == NpxPrefix \o <<"f", "o", "o", " ", Backquote, "i", "d", Backquote>>
CmdUvxFoo  == UvxPrefix \o <<"f", "o", "o">>
CmdShell   == <<"s", "h", " ", "f", "o", "o">>
\* npx -y IDENTIFIER for a registry identifier a;b
CmdRegistrySemi == NpxPrefix \o <<"a", ";", "b">>

PkgFoo == <<"f", "o", "o">>
PkgRegistrySemi == <<"a", ";", "b">>

\* custom installCommand values of the create request body ("" = absent)
CustomCommands ==
  { NoString, CmdEvilFoo, CmdBar, CmdSemi, CmdSubst, CmdTick, CmdUvxFoo,
    CmdShell }

\* the (installCommand, packageName) columns a servers row can hold after a
\* sync: of an npm package foo, and of a registry entry whose identifier is a;b
ServerConfigs ==
  { [installCommand |-> CmdFoo, packageName |-> PkgFoo],
    [installCommand |-> CmdRegistrySemi, packageName |-> PkgRegistrySemi] }

Users == {"alice", "bob"}
Admins == {"bob"}
Anonymous == "anon"
Sessions == Users \cup {Anonymous}
System == "system"

Servers == {"s1"}


\* credentials maps of the supply-secrets request body, as the list of values
CredentialInputs ==
  { << >>, << <<"k", "1">> >>, << <<"a", ";">> >> }

\* credentials/route.ts:91 and :98
MaxCredentialLen == 500
CredentialChars == {";", "&", "|", Backquote, "$"}
ValidCredentials(credentials) ==
  \A i \in 1..Len(credentials) :
     /\ Len(credentials[i]) <= MaxCredentialLen
     /\ \A j \in 1..Len(credentials[i]) : credentials[i][j] \notin CredentialChars

\* encryption.ts: the ciphertext carries its nonce and wraps the plaintext
NoCipher == [iv |-> "null", data |-> << >>]
encryptCredentials(credentials) == [iv |-> "iv", data |-> credentials]
decryptCredentials(encryptedData) == encryptedData.data

\* ValidationResult values a handshake can produce
NoResult == [success |-> FALSE, tools |-> << >>, resources |-> << >>,
             prompts |-> << >>, error |-> "none"]
ResultOk == [success |-> TRUE, tools |-> <<"t1">>, resources |-> << >>,
             prompts |-> << >>, error |-> "none"]
ResultFail == [success |-> FALSE, tools |-> << >>, resources |-> << >>,
               prompts |-> << >>, error |-> "Timeout after 45s"]
ResultPythonNeedsDocker ==
  [success |-> FALSE, tools |-> << >>, resources |-> << >>,
   prompts |-> << >>, error |-> "Python validation requires Docker"]
HandshakeResults == {ResultOk, ResultFail}

Terminal == {"completed", "failed", "cancelled"}

VARIABLES
  servers,      \* servers table: id -> row
  requests,     \* manual_validations table: sequence of rows, id = index
  audit,        \* validation_audit_log table: bag of rows
  calls,        \* handler, worker and batch invocations in flight: bag
  dispatched,   \* repository_dispatch events not yet picked up: bag of ids
  spawned,      \* run commands a candidate process was started with
  budget,       \* invocations the users and the operator may still start
  hs,           \* one handshake attempt: the validator, its child, its timers
  sy,           \* the sync cycle: the catalog it writes and its position
  mg,           \* one group of discovered records and what merging it gave
  nz,           \* one repository, the forms of its URL and what they normalize to
  ad            \* one adapter run: the items of its pages and the batches it yields

vars == <<servers, requests, audit, calls, dispatched, spawned, budget>>

\* the state of the components the orchestrator does not touch
outside == <<hs, sy, mg, nz, ad>>

allvars == <<vars, hs, sy, mg, nz, ad>>

db == <<servers, requests, audit>>

\* the validationResult and validationError columns an admin request read
NoSnap == [validationResult |-> "null", validationError |-> "null"]

\* one invocation: its position, its inputs and its local variables
NewCall(kind, pc, user, rid, cmd, creds, prev, arg) ==
  [kind |-> kind, pc |-> pc, user |-> user, rid |-> rid, cmd |-> cmd,
   creds |-> creds, prev |-> prev, result |-> NoResult, arg |-> arg,
   snap |-> NoSnap, cleared |-> FALSE, code |-> 0]

\* an invocation that returned before its first write and has only its HTTP
\* response left to send
Response(kind, user, rid, code, arg) ==
  [NewCall(kind, "respond", user, rid, NoString, << >>, "none", arg)
     EXCEPT !.code = code]

One(x) == SetToBag({x})
InFlight == BagToSet(calls)

\* no await separates the last read of a handler from its return: a handler
\* that has only its response left sends it before any other step runs
Quiet == \A c \in InFlight : c.pc # "respond"

\* an invocation may start
CanStart == Quiet /\ budget > 0 /\ BagCardinality(calls) < MaxInFlight

Start(c) == calls' = calls (+) One(c)
Step(c, pc) == Quiet /\ calls' = (calls (-) One(c)) (+) One([c EXCEPT !.pc = pc])
Replace(c, d) == Quiet /\ calls' = (calls (-) One(c)) (+) One(d)
Done(c) == Quiet /\ calls' = calls (-) One(c)
AuditRow(serverId, userId, action, validationId) ==
  [serverId |-> serverId, userId |-> userId, action |-> action,
   validationId |-> validationId]

Log(row) == audit' = audit (+) One(row)

\* sync.ts:533-556: the row the sync inserts; its lists are what the README
\* parser found (here: one resource, no tools, no prompts)
InitServer(cfg) ==
  [installCommand |-> cfg.installCommand, packageName |-> cfg.packageName,
   validationStatus |-> "null", validatedAt |-> 0, validationError |-> "null",
   tools |-> << >>, resources |-> <<"r0">>, prompts |-> << >>]

NewRow(serverId, userId, installCommand) ==
  [serverId |-> serverId, userId |-> userId, installCommand |-> installCommand,
   status |-> "pending", encryptedCredentials |-> NoCipher,
   validationResult |-> "null", validationError |-> "null"]

\* The tables at the start: empty; or holding one request that alice created
\* and left pending; or holding one request of alice that the credentials
\* route moved to validating without Docker, whose ciphertext is stored and
\* whose workflow is dispatched but has not started.
InitTables ==
  { [requests |-> << >>, audit |-> EmptyBag, dispatched |-> EmptyBag],
    [requests |-> << NewRow("s1", "alice", NoString) >>,
     audit |-> One(AuditRow("s1", "alice", "submit", 1)),
     dispatched |-> EmptyBag],
    [requests |-> << [NewRow("s1", "alice", NoString) EXCEPT
                        !.status = "validating",
                        !.encryptedCredentials = encryptCredentials(<< <<"k", "1">> >>)] >>,
     audit |-> One(AuditRow("s1", "alice", "submit", 1))
               (+) One(AuditRow("s1", "alice", "validate", 1)),
     dispatched |-> One(1)] }

\* the response leaves the server
Respond(c) ==
  /\ c.pc = "respond"
  /\ calls' = calls (-) One(c)
  /\ UNCHANGED <<db, dispatched, spawned, budget>>
  /\ UNCHANGED outside

(***************************************************************************)
(* POST /api/validate/check : create a ValidationRequest.                  *)
(***************************************************************************)
\* the lookup, had it been written to match the requests under validation
ExistingMatchValidating(row, serverId, userId) ==
  /\ row.serverId = serverId
  /\ row.userId = userId
  /\ row.status = "validating"

\* check/route.ts:145-151: rows the lookup for an existing submission matches
ExistingMatch(row, serverId, userId) ==
  /\ row.serverId = serverId
  /\ row.userId = userId
  /\ row.status = "pending"

ExistingSubmissions(serverId, userId) ==
  {r \in 1..Len(requests) : ExistingMatch(requests[r], serverId, userId)}

\* check/route.ts:105-161: the request up to and including the lookup for an
\* existing submission
CreateStart(user, serverId, installCommand) ==
  /\ CanStart
  /\ budget' = budget - 1
  /\ UNCHANGED <<db, dispatched, spawned>>
  /\ IF user = Anonymous
       THEN Start(Response("create", user, 0, 401, serverId))
     ELSE IF installCommand = NoString /\ servers[serverId].installCommand = NoString
       THEN Start(Response("create", user, 0, 400, serverId))
     ELSE IF /\ installCommand # NoString
             /\ ~validateInstallCommand(installCommand, servers[serverId].packageName)
       THEN Start(Response("create", user, 0, 400, serverId))
     ELSE IF ExistingSubmissions(serverId, user) # {}
       THEN \E r \in ExistingSubmissions(serverId, user) :
               Start([Response("create", user, r, 200, serverId)
                        EXCEPT !.prev = requests[r].status])
     ELSE /\ Len(requests) + Cardinality({c \in InFlight : c.pc = "insert"}) < MaxRequests
          /\ Start(NewCall("create", "insert", user, 0, installCommand, << >>,
                           "none", serverId))
  /\ UNCHANGED outside

\* check/route.ts:175-203: the insert and the audit row that follows it
CreateInsert(c) ==
  /\ c.kind = "create" /\ c.pc = "insert"
  /\ requests' = Append(requests, NewRow(c.arg, c.user, c.cmd))
  /\ Log(AuditRow(c.arg, c.user, "submit", Len(requests) + 1))
  /\ Done(c)
  /\ UNCHANGED <<servers, dispatched, spawned, budget>>
  /\ UNCHANGED outside

(***************************************************************************)
(* POST /api/validate/[id]/credentials : supply secrets and validate.      *)
(***************************************************************************)
\* the submitter check, had it let an admin through
IsSubmitterOrAdmin(submission, user) ==
  submission.userId = user \/ user \in Admins

\* credentials/route.ts:71 and cancel route :29
IsSubmitter(submission, user) == submission.userId = user

\* credentials/route.ts:78
CanSupply(status) == status = "pending"

\* credentials/route.ts:117 and run-validation.ts:59
ResolveCommand(submission) ==
  IF submission.installCommand # NoString
    THEN submission.installCommand
    ELSE servers[submission.serverId].installCommand

\* credentials/route.ts:53-120: the request up to the first write
SupplyStart(user, id, credentials) ==
  /\ CanStart
  /\ budget' = budget - 1
  /\ UNCHANGED <<db, dispatched, spawned>>
  /\ IF user = Anonymous
       THEN Start(Response("supply", user, 0, 401, "none"))
     ELSE IF id \notin 1..Len(requests)
       THEN Start(Response("supply", user, id, 404, "none"))
     ELSE IF ~IsSubmitter(requests[id], user)
       THEN Start(Response("supply", user, id, 403, "none"))
     ELSE IF ~CanSupply(requests[id].status)
       THEN Start(Response("supply", user, id, 400, "none"))
     ELSE IF ~ValidCredentials(credentials)
       THEN Start(Response("supply", user, id, 400, "none"))
     ELSE IF ResolveCommand(requests[id]) = NoString
       THEN Start(Response("supply", user, id, 400, "none"))
     ELSE Start(NewCall("supply", "setValidating", user, id,
                        ResolveCommand(requests[id]), credentials,
                        requests[id].status, "none"))
  /\ UNCHANGED outside

\* credentials/route.ts:226-232: what a failed encryption leaves behind
EncryptFailed(c) == Response(c.kind, c.user, c.rid, 500, "none")

\* credentials/route.ts:123-142 and :223-233: the write of validating, the
\* audit row, then the probe for Docker and, without Docker, the encryption
\* of the credentials
SupplySetValidating(c) ==
  /\ c.kind = "supply" /\ c.pc = "setValidating"
  /\ requests' = [requests EXCEPT ![c.rid].status = "validating"]
  /\ Log(AuditRow(requests[c.rid].serverId, c.user, "validate", c.rid))
  /\ UNCHANGED <<servers, dispatched, spawned, budget>>
  /\ \E dockerAvailable \in BOOLEAN :
       IF dockerAvailable
         THEN Step(c, "runLocal")
         ELSE \E keySet \in BOOLEAN :
                IF c.creds # << >> /\ ~keySet
                  THEN Replace(c, EncryptFailed(c))
                  ELSE Step(c, "storeCiphertext")
  /\ UNCHANGED outside

\* docker-validator.ts:394-415 validateMcpServerSafe: the process it starts
\* and the results it can return
SafeOutcomes(installCommand) ==
  { [via |-> "docker", result |-> r] : r \in HandshakeResults }
  \cup
  ( IF isPythonCommand(installCommand)
      THEN { [via |-> "refused", result |-> ResultPythonNeedsDocker] }
      ELSE { [via |-> "direct", result |-> r] : r \in HandshakeResults } )

Spawn(installCommand, via) ==
  IF via = "refused"
    THEN spawned
    ELSE spawned \cup {[command |-> installCommand, via |-> via]}

\* credentials/route.ts:144; the credentials are not read after the run
SupplyRunLocal(c) ==
  /\ c.kind = "supply" /\ c.pc = "runLocal"
  /\ \E o \in SafeOutcomes(c.cmd) :
       /\ spawned' = Spawn(c.cmd, o.via)
       /\ Replace(c, [c EXCEPT !.pc = "storeResult", !.result = o.result,
                               !.creds = << >>])
  /\ UNCHANGED <<db, dispatched, budget>>
  /\ UNCHANGED outside

\* credentials/route.ts:147-153, and :193-218 with the audit row of a failure
SupplyStoreResult(c) ==
  /\ c.kind = "supply" /\ c.pc = "storeResult"
  /\ IF c.result.success
       THEN /\ requests' = [requests EXCEPT ![c.rid].status = "completed",
                                            ![c.rid].validationResult = "set"]
            /\ Step(c, "updateServer")
            /\ UNCHANGED audit
       ELSE /\ requests' = [requests EXCEPT ![c.rid].status = "failed",
                                            ![c.rid].validationError = c.result.error]
            /\ Log(AuditRow(requests[c.rid].serverId, c.user, "fail", c.rid))
            /\ Done(c)
  /\ UNCHANGED <<servers, dispatched, spawned, budget>>
  /\ UNCHANGED outside

\* credentials/route.ts:155-166 and run-validation.ts:125-137
ServerValidated(row, result) ==
  [row EXCEPT !.validationStatus = "validated",
              !.validatedAt = row.validatedAt + 1,
              !.validationError = "null",
              !.tools = result.tools,
              !.resources = result.resources,
              !.prompts = result.prompts]

\* credentials/route.ts:155-191: the update of the target and the audit row
SupplyUpdateServer(c) ==
  /\ c.kind = "supply" /\ c.pc = "updateServer"
  /\ servers' = [servers EXCEPT ![requests[c.rid].serverId] =
                    ServerValidated(servers[requests[c.rid].serverId], c.result)]
  /\ Log(AuditRow(requests[c.rid].serverId, c.user, "complete", c.rid))
  /\ Done(c)
  /\ UNCHANGED <<requests, dispatched, spawned, budget>>
  /\ UNCHANGED outside

\* credentials/route.ts:236-241; the credentials are not read after the write
SupplyStoreCiphertext(c) ==
  /\ c.kind = "supply" /\ c.pc = "storeCiphertext"
  /\ requests' = [requests EXCEPT ![c.rid].encryptedCredentials =
                    IF c.creds # << >> THEN encryptCredentials(c.creds) ELSE NoCipher]
  /\ Replace(c, [c EXCEPT !.pc = "trigger", !.creds = << >>])
  /\ UNCHANGED <<servers, audit, dispatched, spawned, budget>>
  /\ UNCHANGED outside

\* credentials/route.ts:243 and :10-46 triggerGitHubActions
SupplyTrigger(c) ==
  /\ c.kind = "supply" /\ c.pc = "trigger"
  /\ UNCHANGED <<db, spawned, budget>>
  /\ \E success \in BOOLEAN :
       IF success
         THEN /\ dispatched' = dispatched (+) One(c.rid)
              /\ Done(c)
         ELSE /\ Step(c, "rollback")
              /\ UNCHANGED dispatched
  /\ UNCHANGED outside

\* credentials/route.ts:245-262
SupplyRollback(c) ==
  /\ c.kind = "supply" /\ c.pc = "rollback"
  /\ requests' = [requests EXCEPT ![c.rid].status = "failed",
                                  ![c.rid].encryptedCredentials = NoCipher,
                                  ![c.rid].validationError = "trigger failed"]
  /\ Done(c)
  /\ UNCHANGED <<servers, audit, dispatched, spawned, budget>>
  /\ UNCHANGED outside


(***************************************************************************)
(* POST /api/validate/[id]/cancel                                          *)
(***************************************************************************)
\* the status check, had it only refused a second cancel
CanCancelUnlessCancelled(status) == status # "cancelled"

\* cancel route :36
CanCancel(status) == status = "pending" \/ status = "validating"

\* cancel route :11-41: the request up to the first write
CancelStart(user, id) ==
  /\ CanStart
  /\ budget' = budget - 1
  /\ UNCHANGED <<db, dispatched, spawned>>
  /\ IF user = Anonymous
       THEN Start(Response("cancel", user, 0, 401, "none"))
     ELSE IF id \notin 1..Len(requests)
       THEN Start(Response("cancel", user, id, 404, "none"))
     ELSE IF ~IsSubmitter(requests[id], user)
       THEN Start(Response("cancel", user, id, 403, "none"))
     ELSE IF ~CanCancel(requests[id].status)
       THEN Start(Response("cancel", user, id, 400, "none"))
     ELSE Start(NewCall("cancel", "setCancelled", user, id, NoString, << >>,
                        requests[id].status, "none"))
  /\ UNCHANGED outside

\* cancel route :44-47
CancelledRow(row) == [row EXCEPT !.status = "cancelled"]

\* cancel route :44-64: the write and the audit row that follows it
CancelSetCancelled(c) ==
  /\ c.kind = "cancel" /\ c.pc = "setCancelled"
  /\ requests' = [requests EXCEPT ![c.rid] = CancelledRow(requests[c.rid])]
  /\ Log(AuditRow(requests[c.rid].serverId, c.user, "cancel", c.rid))
  /\ Done(c)
  /\ UNCHANGED <<servers, dispatched, spawned, budget>>
  /\ UNCHANGED outside

(***************************************************************************)
(* PATCH /api/validate/[id] : admin approve / reject / complete.  The body *)
(* carries an action and optionally a validationError; a validationResult  *)
(* is not sent.                                                            *)
(***************************************************************************)
AdminActions == {"approve", "reject", "complete"}

\* the (action, validationError) pairs of the request bodies
AdminInputs ==
  { [action |-> "reject", validationError |-> "null"],
    [action |-> "complete", validationError |-> "null"],
    [action |-> "complete", validationError |-> "forced"],
    [action |-> "retry", validationError |-> "null"] }

\* admin route :174-181
NewStatus(action, validationError) ==
  IF action = "approve" THEN "approved"
  ELSE IF action = "reject" THEN "rejected"
  ELSE IF validationError # "null" THEN "failed" ELSE "completed"

\* admin route :143-171: the request up to the first write
PatchStart(user, id, action, validationError) ==
  /\ CanStart
  /\ budget' = budget - 1
  /\ UNCHANGED <<db, dispatched, spawned>>
  /\ IF user \notin Admins
       THEN Start(Response("admin", user, 0, 403, "none"))
     ELSE IF action \notin AdminActions
       THEN Start(Response("admin", user, 0, 400, "none"))
     ELSE IF id \notin 1..Len(requests)
       THEN Start(Response("admin", user, id, 404, "none"))
     ELSE Start([NewCall("admin", "update", user, id, NoString, << >>,
                         requests[id].status, action)
                  EXCEPT !.result = [NoResult EXCEPT !.error = validationError],
                         !.snap = [validationResult |-> requests[id].validationResult,
                                   validationError |-> requests[id].validationError]])
  /\ UNCHANGED outside

\* admin route :184-193, and :209-224 when no target is updated
PatchUpdate(c) ==
  /\ c.kind = "admin" /\ c.pc = "update"
  /\ requests' = [requests EXCEPT
        ![c.rid].status = NewStatus(c.arg, c.result.error),
        ![c.rid].validationResult = c.snap.validationResult,
        ![c.rid].validationError =
            IF c.result.error # "null" THEN c.result.error ELSE c.snap.validationError]
  /\ IF c.arg = "complete" /\ c.result.error = "null"
       THEN Step(c, "updateServer") /\ UNCHANGED audit
       ELSE Log(AuditRow(requests[c.rid].serverId, c.user, c.arg, c.rid)) /\ Done(c)
  /\ UNCHANGED <<servers, dispatched, spawned, budget>>
  /\ UNCHANGED outside

\* admin route :196-224: the update of the target and the audit row
PatchUpdateServer(c) ==
  /\ c.kind = "admin" /\ c.pc = "updateServer"
  /\ servers' = [servers EXCEPT
        ![requests[c.rid].serverId].validationStatus = "validated",
        ![requests[c.rid].serverId].validatedAt = @ + 1,
        ![requests[c.rid].serverId].validationError = "null"]
  /\ Log(AuditRow(requests[c.rid].serverId, c.user, c.arg, c.rid))
  /\ Done(c)
  /\ UNCHANGED <<requests, dispatched, spawned, budget>>
  /\ UNCHANGED outside

(***************************************************************************)
(* scripts/run-validation.ts : the worker a repository_dispatch starts.    *)
(***************************************************************************)
\* run-validation.ts:35
WorkerAccepts(status) == status = "validating"

\* the order, had the worker cleared the ciphertext before the run
WorkerOrderClearFirst == <<"clear", "exec", "storeResult">>

\* run-validation.ts:97-106: the order of the sandbox run, of the write that
\* clears the ciphertext and of the write of the outcome
WorkerOrder == <<"exec", "clear", "storeResult">>

NextPc(order, pc) ==
  LET i == CHOOSE k \in 1..Len(order) : order[k] = pc
  IN order[i + 1]

\* run-validation.ts:26-91: the reads, the checks and the decryption
WorkerStart(id) ==
  /\ Quiet
  /\ BagIn(id, dispatched)
  /\ dispatched' = dispatched (-) One(id)
  /\ UNCHANGED <<db, spawned, budget>>
  /\ LET validation == requests[id]
         w == NewCall("worker", WorkerOrder[1], validation.userId, id,
                      ResolveCommand(validation), << >>, validation.status, "none")
     IN IF ~WorkerAccepts(validation.status)
          THEN UNCHANGED calls
        ELSE IF ResolveCommand(validation) = NoString
          THEN Start([w EXCEPT !.pc = "abort", !.arg = "No install command available"])
        ELSE IF validation.encryptedCredentials = NoCipher
          THEN Start(w)
        ELSE \E keyOk \in BOOLEAN :
               IF keyOk
                 THEN Start([w EXCEPT !.creds =
                               decryptCredentials(validation.encryptedCredentials)])
                 ELSE Start([w EXCEPT !.pc = "abort",
                                      !.arg = "Failed to decrypt credentials"])
  /\ UNCHANGED outside

\* run-validation.ts:62-70 and :81-89
WorkerAbort(c) ==
  /\ c.kind = "worker" /\ c.pc = "abort"
  /\ requests' = [requests EXCEPT ![c.rid].status = "failed",
                                  ![c.rid].validationError = c.arg,
                                  ![c.rid].encryptedCredentials = NoCipher]
  /\ Done(c)
  /\ UNCHANGED <<servers, audit, dispatched, spawned, budget>>
  /\ UNCHANGED outside

\* run-validation.ts:97-100 validateInDocker; the credentials are not read
\* after the run
WorkerExec(c) ==
  /\ c.kind = "worker" /\ c.pc = "exec"
  /\ \E r \in HandshakeResults :
       /\ spawned' = Spawn(c.cmd, "docker")
       /\ Replace(c, [c EXCEPT !.pc = NextPc(WorkerOrder, "exec"), !.result = r,
                               !.creds = << >>])
  /\ UNCHANGED <<db, dispatched, budget>>
  /\ UNCHANGED outside

\* run-validation.ts:103-106
WorkerClear(c) ==
  /\ c.kind = "worker" /\ c.pc = "clear"
  /\ requests' = [requests EXCEPT ![c.rid].encryptedCredentials = NoCipher]
  /\ Replace(c, [c EXCEPT !.pc = NextPc(WorkerOrder, "clear"), !.cleared = TRUE])
  /\ UNCHANGED <<servers, audit, dispatched, spawned, budget>>
  /\ UNCHANGED outside

\* run-validation.ts:116-122, and :155-177 with the audit row of a failure
WorkerStoreResult(c) ==
  /\ c.kind = "worker" /\ c.pc = "storeResult"
  /\ IF c.result.success
       THEN /\ requests' = [requests EXCEPT ![c.rid].status = "completed",
                                            ![c.rid].validationResult = "set"]
            /\ Step(c, "updateServer")
            /\ UNCHANGED audit
       ELSE /\ requests' = [requests EXCEPT ![c.rid].status = "failed",
                                            ![c.rid].validationError = c.result.error]
            /\ Log(AuditRow(requests[c.rid].serverId, c.user, "fail", c.rid))
            /\ Done(c)
  /\ UNCHANGED <<servers, dispatched, spawned, budget>>
  /\ UNCHANGED outside

\* run-validation.ts:125-150: the update of the target and the audit row
WorkerUpdateServer(c) ==
  /\ c.kind = "worker" /\ c.pc = "updateServer"
  /\ servers' = [servers EXCEPT ![requests[c.rid].serverId] =
                    ServerValidated(servers[requests[c.rid].serverId], c.result)]
  /\ Log(AuditRow(requests[c.rid].serverId, c.user, "complete", c.rid))
  /\ Done(c)
  /\ UNCHANGED <<requests, dispatched, spawned, budget>>
  /\ UNCHANGED outside


(***************************************************************************)
(* scripts/validate-servers.ts : the batch validator.                      *)
(***************************************************************************)
\* validate-servers.ts:80-85: rows the default query selects
NeedsValidation(row) ==
  row.validationStatus = "null" \/ row.validationStatus = "pending"

\* validate-servers.ts:69-165: the select, the skip checks and the direct run
BatchStart(serverId, slug, skipPython, requiresConfig) ==
  /\ CanStart
  /\ budget' = budget - 1
  /\ slug \/ NeedsValidation(servers[serverId])
  /\ UNCHANGED <<db, dispatched>>
  /\ LET server == servers[serverId]
         b == NewCall("batch", "store", System, 0, server.installCommand,
                      << >>, "none", serverId)
     IN IF server.installCommand = NoString
          THEN /\ Start([b EXCEPT !.pc = "skip",
                                  !.snap.validationError = "No install command"])
               /\ UNCHANGED spawned
        ELSE IF skipPython /\ StartsWith(server.installCommand, <<"u", "v", "x">>)
          THEN /\ Start([b EXCEPT !.pc = "skip",
                                  !.snap.validationError = "Python server (uvx) - skipped"])
               /\ UNCHANGED spawned
        ELSE IF requiresConfig
          THEN /\ Start([b EXCEPT !.pc = "needsConfig"])
               /\ UNCHANGED spawned
        ELSE \E r \in HandshakeResults :
               /\ spawned' = Spawn(server.installCommand, "direct")
               /\ Start([b EXCEPT !.result = r])
  /\ UNCHANGED outside

\* validate-servers.ts:120-127, :135-142 and :150-157
BatchSkip(c) ==
  /\ c.kind = "batch" /\ c.pc \in {"skip", "needsConfig"}
  /\ servers' = [servers EXCEPT
        ![c.arg].validationStatus = IF c.pc = "skip" THEN "skipped" ELSE "needs_config",
        ![c.arg].validationError =
            IF c.pc = "skip" THEN c.snap.validationError
            ELSE "Requires API keys or configuration",
        ![c.arg].validatedAt = @ + 1]
  /\ Done(c)
  /\ UNCHANGED <<requests, audit, dispatched, spawned, budget>>
  /\ UNCHANGED outside

\* validate-servers.ts:168-187: a non-empty list overwrites, an empty one not
BatchValidated(row, result) ==
  [row EXCEPT !.validationStatus = "validated",
              !.validatedAt = row.validatedAt + 1,
              !.validationError = "null",
              !.tools = IF Len(result.tools) > 0 THEN result.tools ELSE row.tools,
              !.resources = IF Len(result.resources) > 0 THEN result.resources
                            ELSE row.resources,
              !.prompts = IF Len(result.prompts) > 0 THEN result.prompts
                          ELSE row.prompts]

\* validate-servers.ts:167-210
BatchStore(c) ==
  /\ c.kind = "batch" /\ c.pc = "store"
  /\ servers' = [servers EXCEPT ![c.arg] =
        IF c.result.success
          THEN BatchValidated(servers[c.arg], c.result)
          ELSE [servers[c.arg] EXCEPT !.validationStatus = "failed",
                                      !.validatedAt = @ + 1,
                                      !.validationError = c.result.error]]
  /\ Done(c)
  /\ UNCHANGED <<requests, audit, dispatched, spawned, budget>>
  /\ UNCHANGED outside

(***************************************************************************)
(* The handshake engine: validateMcpServer (lib/validation/mcp-validator.ts)*)
(* and validateInDocker with the script it runs in the container           *)
(* (lib/validation/docker-validator.ts).  One attempt against one child.   *)
(***************************************************************************)
\* messages of one stdout data event
MaxChunk == 2

\* mcp-validator.ts:100-108, :180-182 and :243: the ids of initialize,
\* tools/list, resources/list and prompts/list
RequestIds == 1..4

\* a JSON-RPC response line of the child: a result (with its list) or an error
Reply(id, kind) ==
  [id |-> id, kind |-> kind,
   list |-> IF kind = "result" /\ id > 1 THEN <<"item">> ELSE << >>]

Replies == {Reply(id, kind) : id \in RequestIds, kind \in {"result", "error"}}

\* what a child writes to stdout in its life: every request is answered at
\* most once, in any order, possibly not at all
RECURSIVE Scripts(_)
Scripts(ids) ==
  {<< >>} \cup
  UNION { { <<m>> \o s : s \in Scripts(ids \ {m.id}) } :
          m \in {r \in Replies : r.id \in ids} }

\* a child that answers the whole handshake and then answers a list request
\* a second time, with an error
RepeatScripts ==
  {<<Reply(1, "result"), Reply(2, "result"), Reply(3, "result"),
     Reply(4, "result"), Reply(id, "error")>> : id \in 2..4}

Engines == {"direct", "docker"}

\* spawn succeeds, emits an error event (ENOENT), or throws
SpawnModes == {"ok", "errorEvent", "throws"}

\* the exit codes a child can end with; "null" is the code of a death by signal
ExitCodes == {"0", "1", "null"}

\* the error texts of mcp-validator.ts:95, :137, :225, :235, :251 and of
\* docker-validator.ts:71, :85, :116, :165, :182, :203
ErrTimeout == "Timeout after 45s"
ErrInitialize == "MCP initialize error: message"
ErrSpawn == "Spawn error: message"
ErrExit == "Process exited with code 1. stderr: excerpt"
ErrException == "Exception: message"
ErrScriptTimeout == "Timeout"
ErrScriptInitialize == "message"
ErrScriptSpawn == "message"
ErrDockerTimeout == "Docker timeout after 60s"
ErrDocker == "Docker error: message"
ErrDockerExit == "Exit code 1: excerpt"
ErrNoOutput == "No output from validator"


NoOutcome == [success |-> FALSE, error |-> "unresolved", tools |-> << >>,
              resources |-> << >>, prompts |-> << >>]

Failure(error) == [NoOutcome EXCEPT !.error = error]

\* mcp-validator.ts:121-124 and docker-validator.ts:67
NewResult == [success |-> FALSE, error |-> "none", tools |-> << >>,
              resources |-> << >>, prompts |-> << >>]

\* process.env of the host: the variables the service itself runs with
HostEnvironment == {"PATH", "DATABASE_URL", "ENCRYPTION_KEY"}

\* the envVars of the caller: the secrets a user supplied
EnvVars == {"API_KEY"}

\* mcp-validator.ts:110-114: the env option of the spawn
DirectEnv == HostEnvironment \cup {"NODE_ENV"}

\* docker-validator.ts:141-147: the -e arguments of docker run
DockerEnv == EnvVars \cup {"MCP_INSTALL_CMD"}

\* the attempt before validateMcpServer or validateInDocker is called
HsIdle(engine, spawnMode, script) ==
  [engine |-> engine, spawnMode |-> spawnMode, script |-> script,
   pc |-> "idle", proc |-> FALSE, killed |-> FALSE, child |-> "none",
   exitCode |-> "none", signals |-> {}, stdout |-> << >>,
   initDone |-> FALSE, toolsDone |-> FALSE, resourcesDone |-> FALSE,
   promptsDone |-> FALSE, messageId |-> 1, result |-> NewResult,
   resolved |-> FALSE, outcome |-> NoOutcome, timeout |-> "off",
   killTimer |-> "off", earlyExit |-> FALSE, cli |-> "none",
   cliSignals |-> {}, container |-> "none", scriptTimeout |-> "off",
   printed |-> NoOutcome, containerCode |-> "none", env |-> {},
   sent |-> << >>, held |-> NoOutcome]

\* the handshake engine is not in use
HsOff == [pc |-> "off"]

\* ChildProcess.kill: the signal reaches a child that is alive
Kill(h, signal) ==
  IF h.child = "alive"
    THEN [h EXCEPT !.signals = @ \cup {signal}, !.killed = TRUE]
    ELSE h

\* mcp-validator.ts:100-108 and docker-validator.ts:46-49: a request is
\* written to the stdin of the child with the next id
sendRequest(h, method) ==
  [h EXCEPT !.sent = Append(@, [method |-> method, id |-> h.messageId]),
            !.messageId = @ + 1]

\* mcp-validator.ts:174-177: a notification carries no id, written 0 here
Notify(h, method) ==
  [h EXCEPT !.sent = Append(@, [method |-> method, id |-> 0])]

\* mcp-validator.ts:174-182 and docker-validator.ts:92-95
SendLists(h) ==
  sendRequest(sendRequest(sendRequest(Notify(h, "notifications/initialized"),
                                      "tools/list"),
                          "resources/list"),
              "prompts/list")

\* the test for the initialize response, had it not asked for the first one
InitResponseAgain(h, msg) == msg.id = 1 /\ msg.kind = "result"

\* mcp-validator.ts:156 and docker-validator.ts:89
InitResponse(h, msg) == ~h.initDone /\ msg.id = 1 /\ msg.kind = "result"

\* mcp-validator.ts:81-90; held is the object the promise was resolved with
finish(h, result) ==
  IF h.resolved THEN h
  ELSE LET r == [h EXCEPT !.resolved = TRUE, !.timeout = "cleared",
                          !.outcome = result, !.held = result]
       IN IF h.proc /\ ~h.killed
            THEN [Kill(r, "SIGTERM") EXCEPT !.killTimer = "armed"]
            ELSE r

AllDone(h) == h.initDone /\ h.toolsDone /\ h.resourcesDone /\ h.promptsDone

\* the test, had every JSON-RPC error been fatal
IsFatalAny(msg) == msg.kind = "error"

\* mcp-validator.ts:132-133 and docker-validator.ts:82: the error that ends
\* the attempt
IsFatal(msg) == msg.kind = "error" /\ msg.id = 1

\* mcp-validator.ts:130-213: the body of the loop for one message; stop is the
\* return at :140
OnMessage(h, msg) ==
  IF IsFatal(msg)
    THEN [h |-> finish(h, Failure(ErrInitialize)), stop |-> TRUE]
  ELSE
    LET a == IF msg.kind # "error" THEN h
             ELSE IF msg.id = 2
               THEN [h EXCEPT !.toolsDone = TRUE, !.result.tools = << >>]
             ELSE IF msg.id = 3
               THEN [h EXCEPT !.resourcesDone = TRUE, !.result.resources = << >>]
             ELSE IF msg.id = 4
               THEN [h EXCEPT !.promptsDone = TRUE, !.result.prompts = << >>]
             ELSE h
        b == IF InitResponse(a, msg)
               THEN SendLists([a EXCEPT !.initDone = TRUE])
               ELSE a
        c == IF ~b.toolsDone /\ msg.id = 2 /\ msg.kind = "result"
               THEN [b EXCEPT !.toolsDone = TRUE, !.result.tools = msg.list]
               ELSE b
        d == IF ~c.resourcesDone /\ msg.id = 3 /\ msg.kind = "result"
               THEN [c EXCEPT !.resourcesDone = TRUE, !.result.resources = msg.list]
               ELSE c
        e == IF ~d.promptsDone /\ msg.id = 4 /\ msg.kind = "result"
               THEN [d EXCEPT !.promptsDone = TRUE, !.result.prompts = msg.list]
               ELSE d
    IN IF AllDone(e)
         THEN [h |-> finish([e EXCEPT !.result.success = TRUE],
                            [e.result EXCEPT !.success = TRUE]),
               stop |-> FALSE]
         ELSE [h |-> e, stop |-> FALSE]

\* process.exit(code) of the script in the container, after console.log(line)
ScriptExit(h, line, code) ==
  [h EXCEPT !.printed = line, !.container = "exited", !.containerCode = code,
            !.scriptTimeout = "cleared",
            !.child = IF @ = "alive" THEN "exited" ELSE @,
            !.exitCode = IF h.child = "alive" THEN "null" ELSE @]

\* docker-validator.ts:78-110: the body of the loop of the script for one
\* message; stop is process.exit
OnScriptMessage(h, msg) ==
  IF IsFatal(msg)
    THEN [h |-> ScriptExit(Kill(h, "SIGTERM"), Failure(ErrScriptInitialize), "1"),
          stop |-> TRUE]
  ELSE
    LET b == IF InitResponse(h, msg)
               THEN SendLists([h EXCEPT !.initDone = TRUE])
               ELSE h
        c == IF msg.id = 2
               THEN [b EXCEPT !.toolsDone = TRUE, !.result.tools = msg.list]
               ELSE b
        d == IF msg.id = 3
               THEN [c EXCEPT !.resourcesDone = TRUE, !.result.resources = msg.list]
               ELSE c
        e == IF msg.id = 4
               THEN [d EXCEPT !.promptsDone = TRUE, !.result.prompts = msg.list]
               ELSE d
    IN IF AllDone(e)
         THEN [h |-> ScriptExit(Kill([e EXCEPT !.result.success = TRUE], "SIGTERM"),
                                [e.result EXCEPT !.success = TRUE], "0"),
               stop |-> TRUE]
         ELSE [h |-> e, stop |-> FALSE]

\* the for loop over the messages parsed from the whole of stdout
RECURSIVE ProcessMessages(_, _)
ProcessMessages(h, messages) ==
  IF messages = << >> THEN h
  ELSE LET r == IF h.engine = "direct"
                  THEN OnMessage(h, Head(messages))
                  ELSE OnScriptMessage(h, Head(messages))
       IN IF r.stop THEN r.h ELSE ProcessMessages(r.h, Tail(messages))

\* mcp-validator.ts:204-208: a success resolves the promise with the result
\* object itself, so what the caller holds is what that object holds now
Held(h) ==
  IF h.engine = "direct" /\ h.resolved /\ h.outcome.success
    THEN [h EXCEPT !.held = h.result]
    ELSE h

\* Promise resolve of validateInDocker: only the first call counts
resolve(h, result) ==
  IF h.resolved THEN h
  ELSE [h EXCEPT !.resolved = TRUE, !.outcome = result, !.held = result]

\* mcp-validator.ts:74-124 and :242-254: the timer, the spawn and the
\* initialize request
StartDirect(h) ==
  LET t == [h EXCEPT !.pc = "running", !.timeout = "armed"]
  IN IF h.spawnMode = "throws"
       THEN finish(t, Failure(ErrException))
       ELSE [sendRequest(t, "initialize") EXCEPT
               !.proc = TRUE, !.env = DirectEnv,
               !.child = IF h.spawnMode = "ok" THEN "alive" ELSE "unspawned"]

\* docker-validator.ts:130-168 and :178-185: docker run and the timer; without
\* a docker binary the error event resolves the attempt
StartDocker(h, dockerFound) ==
  IF dockerFound
    THEN [h EXCEPT !.pc = "running", !.proc = TRUE, !.cli = "alive",
                   !.container = "installing", !.timeout = "armed",
                   !.env = DockerEnv]
    ELSE resolve([h EXCEPT !.pc = "running", !.proc = TRUE, !.timeout = "cleared"],
                 Failure(ErrDocker))

HsStart ==
  /\ hs.pc = "idle" /\ hs.engine \in Engines
  /\ \/ hs.engine = "direct" /\ hs' = StartDirect(hs)
     \/ hs.engine = "docker" /\ \E dockerFound \in BOOLEAN :
                                   hs' = StartDocker(hs, dockerFound)
  /\ UNCHANGED <<vars, sy, mg, nz, ad>>

\* mcp-validator.ts:222-228
HsSpawnError ==
  /\ hs.engine = "direct" /\ hs.child = "unspawned"
  /\ hs' = finish([hs EXCEPT !.child = "none"], Failure(ErrSpawn))
  /\ UNCHANGED <<vars, sy, mg, nz, ad>>

\* docker-validator.ts:153 and :53-73, :114-124: npm install, then the script:
\* its spawn, its timer and its initialize request
HsScriptStart ==
  /\ hs.engine = "docker" /\ hs.container = "installing"
  /\ \E installed \in BOOLEAN :
       hs' = IF ~installed
               THEN [hs EXCEPT !.container = "exited", !.containerCode = "1"]
             ELSE IF hs.spawnMode = "ok"
               THEN [sendRequest(hs, "initialize") EXCEPT
                       !.container = "running", !.child = "alive",
                       !.scriptTimeout = "armed"]
             ELSE IF hs.spawnMode = "errorEvent"
               THEN ScriptExit(sendRequest(hs, "initialize"),
                               Failure(ErrScriptSpawn), "1")
             ELSE ScriptExit(hs, NoOutcome, "1")
  /\ UNCHANGED <<vars, sy, mg, nz, ad>>

\* mcp-validator.ts:126-129 and docker-validator.ts:75-77: a data event of
\* the stdout of the child
HsData ==
  /\ hs.child = "alive" /\ hs.script # << >>
  /\ hs.engine = "docker" => hs.container = "running"
  /\ \E n \in 1..MaxChunk :
       /\ n <= Len(hs.script)
       /\ LET h == [hs EXCEPT !.stdout = @ \o SubSeq(hs.script, 1, n),
                              !.script = SubSeq(@, n + 1, Len(@))]
          IN hs' = Held(ProcessMessages(h, h.stdout))
  /\ UNCHANGED <<vars, sy, mg, nz, ad>>

\* mcp-validator.ts:230-240: the child ends; the script in the container has
\* no exit handler
HsExit ==
  /\ hs.child = "alive"
  /\ hs.engine = "docker" => hs.container = "running"
  /\ \E code \in ExitCodes :
       LET h == [hs EXCEPT !.child = "exited", !.exitCode = code,
                           !.earlyExit = ~hs.resolved /\ hs.printed = NoOutcome]
       IN hs' = IF hs.engine = "direct" /\ ~hs.resolved /\ code # "0" /\ code # "null"
                  THEN finish(h, Failure(ErrExit))
                  ELSE h
  /\ UNCHANGED <<vars, sy, mg, nz, ad>>

\* the timer, had its callback ended nothing
HsTimeoutDropped ==
  /\ hs.timeout = "armed"
  /\ hs' = [hs EXCEPT !.timeout = "fired"]
  /\ UNCHANGED <<vars, sy, mg, nz, ad>>

\* mcp-validator.ts:92-98 and docker-validator.ts:161-168
HsTimeout ==
  /\ hs.timeout = "armed"
  /\ hs' = IF hs.engine = "direct"
             THEN [finish(hs, Failure(ErrTimeout)) EXCEPT !.timeout = "fired"]
             ELSE [resolve(hs, Failure(ErrDockerTimeout)) EXCEPT
                     !.timeout = "fired",
                     !.cliSignals = IF hs.cli = "alive" THEN @ \cup {"SIGKILL"} ELSE @]
  /\ UNCHANGED <<vars, sy, mg, nz, ad>>

\* mcp-validator.ts:87
HsKillTimer ==
  /\ hs.killTimer = "armed"
  /\ hs' = [Kill(hs, "SIGKILL") EXCEPT !.killTimer = "fired"]
  /\ UNCHANGED <<vars, sy, mg, nz, ad>>

\* docker-validator.ts:69-73
HsScriptTimeout ==
  /\ hs.scriptTimeout = "armed" /\ hs.container = "running"
  /\ hs' = ScriptExit(Kill(hs, "SIGTERM"), Failure(ErrScriptTimeout), "1")
  /\ UNCHANGED <<vars, sy, mg, nz, ad>>

\* docker-validator.ts:187-207: docker run ends, with the container or
\* killed; the last line of its stdout is the result
HsDockerExit ==
  /\ hs.cli = "alive"
  /\ hs.container = "exited" \/ "SIGKILL" \in hs.cliSignals
  /\ LET h == [hs EXCEPT !.cli = "exited",
                         !.timeout = IF @ = "armed" THEN "cleared" ELSE @]
         line == IF hs.container = "exited" THEN hs.printed ELSE NoOutcome
     IN hs' = IF line # NoOutcome
                THEN resolve(h, line)
                ELSE resolve(h, Failure(IF hs.container = "exited" /\ hs.containerCode = "0"
                                          THEN ErrNoOutput ELSE ErrDockerExit))
  /\ UNCHANGED <<vars, sy, mg, nz, ad>>

(***************************************************************************)
(* The sync cycle: syncServers and its processServer                       *)
(* (scripts/lib/sync.ts).  One project whose repository was created as     *)
(* OldUrl and may be renamed upstream to NewUrl.                           *)
(***************************************************************************)
MaxCycles == 2

OldUrl == "github.com/o/a"
NewUrl == "github.com/n/a"
Urls == {OldUrl, NewUrl}
Versions == {"1", "2"}
Undefined == "undefined"
Null == "null"
NoRow == [id |-> Null]
Exists(row) == row.id # Null

\* the MergedServer records one cycle can discover: at most one for a
\* canonical URL, with or without a version
MergedRecords == [canonicalUrl : Urls, version : Versions \cup {Undefined}]
MergedSets ==
  {ms \in SUBSET MergedRecords :
     \A a, b \in ms : a.canonicalUrl = b.canonicalUrl => a = b}

\* sync.ts:350-358: the columns the cycle selects of the existing servers
ExistingColumns ==
  {"id", "slug", "sourceUrl", "contentHash", "readmeContent", "tools"}

\* the object a select of these columns returns for a row
Selected(row) ==
  IF ~Exists(row) THEN NoRow
  ELSE [col \in ExistingColumns \cap DOMAIN row |-> row[col]]

\* reading a property of an object: undefined where the object has none
Get(obj, field) == IF field \in DOMAIN obj THEN obj[field] ELSE Undefined

\* the locals of the latest processServer
NoLast == [from |-> Null, url |-> Null, version |-> Undefined,
           redirected |-> FALSE, skipped |-> FALSE, isNew |-> FALSE]

SyIdle(rows) ==
  [servers |-> rows, requests |-> << >>, renamed |-> FALSE, pc |-> "idle",
   forceRefresh |-> FALSE, validateNew |-> FALSE,
   existingByUrl |-> [u \in Urls |-> NoRow], toProcess |-> {},
   processed |-> 0, last |-> NoLast, cycles |-> 0]

\* no sync cycle is modelled
SyOff == [pc |-> "off"]

\* sync.ts:533-563: the row an insert of the upsert creates
NewServer(url, version) ==
  [id |-> url, sourceUrl |-> url,
   latestVersion |-> IF version = Undefined THEN Null ELSE version,
   validationStatus |-> Null]

\* sync.ts:205-240 fetchGitHubRepo: the URL GitHub answers with
Canonical(url, renamed) == IF renamed /\ url = OldUrl THEN NewUrl ELSE url

\* the repository is renamed upstream
SyRename ==
  /\ ~sy.renamed
  /\ sy' = [sy EXCEPT !.renamed = TRUE]
  /\ UNCHANGED <<vars, hs, mg, nz, ad>>

\* validate-servers.ts:167-187: between two cycles the batch validator marks
\* an entity validated
SyValidated(url) ==
  /\ sy.pc = "idle"
  /\ Exists(sy.servers[url])
  /\ sy.servers[url].validationStatus # "validated"
  /\ sy' = [sy EXCEPT !.servers[url].validationStatus = "validated"]
  /\ UNCHANGED <<vars, hs, mg, nz, ad>>

\* sync.ts:380-402: the records of a cycle that are processed
ToProcess(merged, existingByUrl, forceRefresh) ==
  {server \in merged :
     ~(~forceRefresh /\ Exists(existingByUrl[server.canonicalUrl]))}

\* sync.ts:300-410: a cycle starts: the sources are fetched and merged, the
\* existing servers are read once, and the records to process are chosen
SyStart(merged, forceRefresh, validateNew) ==
  /\ sy.pc = "idle"
  /\ sy.cycles < MaxCycles
  /\ \A server \in merged : server.canonicalUrl = NewUrl => sy.renamed
  /\ LET existingByUrl == [u \in Urls |-> Selected(sy.servers[u])]
         toProcess == ToProcess(merged, existingByUrl, forceRefresh)
     IN sy' = [sy EXCEPT !.cycles = @ + 1,
                         !.forceRefresh = forceRefresh,
                         !.validateNew = validateNew,
                         !.existingByUrl = existingByUrl,
                         !.toProcess = toProcess,
                         !.processed = 0,
                         !.last = NoLast,
                         !.pc = IF toProcess = {} THEN "idle" ELSE "processing"]
  /\ UNCHANGED <<vars, hs, mg, nz, ad>>

\* sync.ts:636-644: the version changed on a validated server
VersionChanged(isNew, existingServer, mergedServer) ==
  /\ ~isNew
  /\ Exists(existingServer)
  /\ Get(existingServer, "validationStatus") = "validated"
  /\ mergedServer.version # Undefined
  /\ Get(existingServer, "latestVersion") \notin {Undefined, Null}
  /\ Get(existingServer, "latestVersion") # mergedServer.version

\* sync.ts:533-591: the upsert on sourceUrl
Upsert(rows, url, version) ==
  IF ~Exists(rows[url])
    THEN [rows EXCEPT ![url] = NewServer(url, version)]
    ELSE [rows EXCEPT ![url].latestVersion =
            IF version = Undefined THEN Null ELSE version]

\* sync.ts:645-657: the request the cycle queues
QueuedRequest(inserted) ==
  [serverId |-> inserted.id, userId |-> Null, status |-> "pending"]

\* sync.ts:660-711: what auto-validation writes to a new server
AutoValidationOutcomes == {"needs_config", "validated", "failed"}

\* sync.ts:412-722 processServer for one record: the lookup, the handling of
\* a redirect, the upsert, the queued re-validation and the auto-validation
SyProcess(mergedServer, found, outcome) ==
  /\ sy.pc = "processing"
  /\ mergedServer \in sy.toProcess
  /\ LET actual == Canonical(mergedServer.canonicalUrl, sy.renamed)
         wasRedirected == found /\ actual # mergedServer.canonicalUrl
         skip == wasRedirected /\ Exists(sy.existingByUrl[actual])
         canonicalUrl == IF wasRedirected THEN actual ELSE mergedServer.canonicalUrl
         existingServer == sy.existingByUrl[canonicalUrl]
         isNew == ~Exists(existingServer)
         upserted == Upsert(sy.servers, canonicalUrl, mergedServer.version)
         inserted == upserted[canonicalUrl]
         rest == sy.toProcess \ {mergedServer}
         t == [sy EXCEPT !.toProcess = rest,
                         !.processed = @ + 1,
                         !.pc = IF rest = {} THEN "idle" ELSE "processing",
                         !.last = [from |-> mergedServer.canonicalUrl,
                                   url |-> canonicalUrl,
                                   version |-> mergedServer.version,
                                   redirected |-> wasRedirected,
                                   skipped |-> skip,
                                   isNew |-> isNew]]
     IN sy' = IF skip THEN t
              ELSE [t EXCEPT
                      !.servers =
                        IF isNew /\ sy.validateNew
                          THEN [upserted EXCEPT ![canonicalUrl].validationStatus = outcome]
                          ELSE upserted,
                      !.requests =
                        IF VersionChanged(isNew, existingServer, mergedServer)
                          THEN Append(@, QueuedRequest(inserted))
                          ELSE @]
  /\ UNCHANGED <<vars, hs, mg, nz, ad>>

(***************************************************************************)
(* The merge engine: deduplicateServers for the records of one canonical   *)
(* URL (scripts/lib/deduplication.ts).  Of the scalar fields the model     *)
(* keeps name (taken from the primary record only), version (a field with  *)
(* a priority override and a fallback) and stars (likewise, and a number). *)
(***************************************************************************)
MaxGroup == 2

\* sources/index.ts:34-36: the adapters a sync runs
MergeSources == {"mcp-registry", "npm", "github", "glama", "pulsemcp"}

\* deduplication.ts:4-9: glama and pulsemcp have no entry
SOURCE_PRIORITY ==
  [source \in {"mcp-registry", "npm", "github", "pypi"} |->
     CASE source = "mcp-registry" -> 1
       [] source = "npm" -> 2
       [] source = "github" -> 3
       [] source = "pypi" -> 4]

\* the table without the entry for stars
FieldPriorityWithoutStars ==
  [stars |-> << >>, version |-> <<"npm", "mcp-registry", "pypi">>]

\* deduplication.ts:12-24, for the fields of the model
FIELD_PRIORITY ==
  [stars |-> <<"github">>, version |-> <<"npm", "mcp-registry", "pypi">>]

\* the version an adapter gives a record: the registry's may be absent
\* (the registry adapter, server.version), a package always has one
\* (npm.ts:109), the other adapters set none
EmittedVersions(source) ==
  CASE source = "mcp-registry" -> {Undefined, "1"}
    [] source = "npm" -> {"1", "2"}
    [] OTHER -> {Undefined}

\* the stars an adapter gives a record: a repository passes the code-host
\* adapter with MIN_STARS or more (its stargazers_count), the scraper reads
\* any count off the page or none (pulsemcp.ts:105-113, :198), the other
\* adapters set none
EmittedStars(source) ==
  CASE source = "github" -> {"1", "500"}
    [] source = "pulsemcp" -> {Undefined, "0", "500"}
    [] OTHER -> {Undefined}

\* the DiscoveredServer records of one canonical URL; the raw payload of a
\* record carries the name the source reported
DiscoveredServers ==
  UNION {[source : {source}, name : {"a", "b"},
          version : EmittedVersions(source), stars : EmittedStars(source)] :
           source \in MergeSources}

\* the adapters that emit one record per repository: seenRepos in the
\* code-host adapter, seenUrls on the canonical URL in pulsemcp.ts:184-188
OncePerUrl == {"github", "pulsemcp"}

sourceData(server) == [name |-> server.name]

RECURSIVE SeqsUpTo(_)
SeqsUpTo(n) ==
  IF n = 0 THEN {<< >>}
  ELSE LET shorter == SeqsUpTo(n - 1)
       IN shorter \cup {Append(s, r) : s \in shorter, r \in DiscoveredServers}

Groups ==
  {group \in SeqsUpTo(MaxGroup) \ {<< >>} :
     \A i, j \in 1..Len(group) :
       (group[i].source = group[j].source /\ group[i].source \in OncePerUrl)
         => i = j}

\* the orders a group can arrive in
Orders(group) ==
  {[i \in 1..Len(group) |-> group[f[i]]] :
     f \in {g \in [1..Len(group) -> 1..Len(group)] :
              \A i, j \in 1..Len(group) : g[i] = g[j] => i = j}}

\* deduplication.ts:57: the comparator; a difference with an undefined
\* priority is NaN, which sort takes for 0
ComparePriority(a, b) ==
  IF a.source \in DOMAIN SOURCE_PRIORITY /\ b.source \in DOMAIN SOURCE_PRIORITY
    THEN SOURCE_PRIORITY[a.source] - SOURCE_PRIORITY[b.source]
    ELSE 0

\* one step of the stable sort: x goes behind the last record it does not
\* precede
RECURSIVE InsertSorted(_, _)
InsertSorted(sorted, x) ==
  IF sorted = << >> THEN <<x>>
  ELSE IF ComparePriority(x, sorted[Len(sorted)]) < 0
    THEN Append(InsertSorted(SubSeq(sorted, 1, Len(sorted) - 1), x),
                sorted[Len(sorted)])
  ELSE Append(sorted, x)

\* deduplication.ts:56-58
RECURSIVE SortByPriority(_)
SortByPriority(group) ==
  IF group = << >> THEN << >>
  ELSE InsertSorted(SortByPriority(SubSeq(group, 1, Len(group) - 1)),
                    group[Len(group)])

\* deduplication.ts:90: servers.find, the first record of a source
FindSource(group, source) ==
  IF \E i \in 1..Len(group) : group[i].source = source
    THEN group[CHOOSE i \in 1..Len(group) :
                   /\ group[i].source = source
                   /\ \A j \in 1..(i - 1) : group[j].source # source]
    ELSE [source |-> Undefined, name |-> Undefined, version |-> Undefined,
          stars |-> Undefined]

\* deduplication.ts:88-96: the value a field's override gives, or the value
\* the field had
RECURSIVE Override(_, _, _, _)
Override(group, field, prioritySources, value) ==
  IF prioritySources = << >> THEN value
  ELSE LET server == FindSource(group, Head(prioritySources))
       IN IF server.source # Undefined /\ server[field] # Undefined
            THEN server[field]
            ELSE Override(group, field, Tail(prioritySources), value)

\* !value for a string or a number
Falsy(value) == value \in {Undefined, "0", ""}

\* deduplication.ts:99-133: a field still unset takes the first value set
RECURSIVE FillMissing(_, _, _)
FillMissing(others, field, value) ==
  IF others = << >> THEN value
  ELSE FillMissing(Tail(others), field,
                   IF Falsy(value) /\ ~Falsy(Head(others)[field])
                     THEN Head(others)[field] ELSE value)

\* deduplication.ts:83-85: the payload stored last under a source
SourceDataOf(group) ==
  [source \in {group[i].source : i \in 1..Len(group)} |->
     sourceData(group[CHOOSE i \in 1..Len(group) :
                          /\ group[i].source = source
                          /\ \A j \in (i + 1)..Len(group) :
                               group[j].source # source])]

\* deduplication.ts:52-135 for one group
MergeGroup(group) ==
  LET sorted == SortByPriority(group)
      primary == sorted[1]
      field(name) ==
        FillMissing(Tail(sorted), name,
                    Override(group, name, FIELD_PRIORITY[name], primary[name]))
  IN [name |-> primary.name,
      version |-> field("version"),
      stars |-> field("stars"),
      sources |-> [i \in 1..Len(group) |-> group[i].source],
      sourceData |-> SourceDataOf(group)]

NoMerged ==
  [name |-> Undefined, version |-> Undefined, stars |-> Undefined,
   sources |-> << >>, sourceData |-> << >>]

MgIdle(group) ==
  [servers |-> group, permuted |-> << >>, merged |-> NoMerged,
   mergedPermuted |-> NoMerged]

\* no merge is modelled
MgOff == [pc |-> "off"]

\* sync.ts:344: the group is merged in the order it was discovered in
MgMerge ==
  /\ mg.servers # << >>
  /\ mg.merged = NoMerged
  /\ mg' = [mg EXCEPT !.merged = MergeGroup(mg.servers)]
  /\ UNCHANGED <<vars, hs, sy, nz, ad>>

\* the same records, discovered in another order, are merged
MgMergePermuted(group) ==
  /\ mg.servers # << >>
  /\ mg.mergedPermuted = NoMerged
  /\ group \in Orders(mg.servers)
  /\ mg' = [mg EXCEPT !.permuted = group,
                      !.mergedPermuted = MergeGroup(group)]
  /\ UNCHANGED <<vars, hs, sy, nz, ad>>

(***************************************************************************)
(* The canonicalizer: normalizeGitHubUrl (scripts/lib/sources/base.ts) on  *)
(* the forms in which one repository is referred to.                       *)
(***************************************************************************)
GitPlusPrefix == <<"g", "i", "t", "+">>

GithubCom == <<"g", "i", "t", "h", "u", "b", ".", "c", "o", "m">>

\* git@github.com:
SshPrefix == <<"g", "i", "t", "@">> \o GithubCom \o <<":">>

Https == <<"h", "t", "t", "p", "s", ":", "/", "/">>

\* https://github.com/
HttpsGithub == Https \o GithubCom \o <<"/">>

DotGit == <<".", "g", "i", "t">>

\* null; normalizeGitHubUrl answers null for the empty string and never
\* answers the empty string (base.ts:74, :96)
NoUrl == << >>

\* url.replace(/^prefix/, by)
ReplacePrefix(url, prefix, by) ==
  IF StartsWith(url, prefix) THEN by \o Slice(url, Len(prefix)) ELSE url

\* s.replace(/suffix$/, "")
StripSuffix(s, suffix) ==
  IF /\ Len(suffix) <= Len(s)
     /\ SubSeq(s, Len(s) - Len(suffix) + 1, Len(s)) = suffix
    THEN SubSeq(s, 1, Len(s) - Len(suffix))
    ELSE s

\* the first position from p on whose character is in stop, or the end: a
\* greedy [^stop]+ that starts at p ends before it
RECURSIVE RunEnd(_, _, _)
RunEnd(url, p, stop) ==
  IF p > Len(url) \/ url[p] \in stop THEN p ELSE RunEnd(url, p + 1, stop)

NoMatch == [owner |-> NoString, repo |-> NoString]

\* base.ts:90: the pattern tried at position p.  The owner is the characters
\* up to the next slash, the repository the characters after it up to a
\* slash, a dot or a hash; either may not be empty
MatchAt(url, p) ==
  LET o == p + Len(GithubCom) + 1
      oEnd == RunEnd(url, o, {"/"})
      r == oEnd + 1
      rEnd == RunEnd(url, r, {"/", ".", "#"})
  IN IF /\ p + Len(GithubCom) <= Len(url)
        /\ SubSeq(url, p, p + Len(GithubCom) - 1) = GithubCom
        /\ url[p + Len(GithubCom)] \in {"/", ":"}
        /\ oEnd > o
        /\ oEnd <= Len(url)
        /\ rEnd > r
       THEN [owner |-> SubSeq(url, o, oEnd - 1), repo |-> SubSeq(url, r, rEnd - 1)]
       ELSE NoMatch

\* url.match: the match at the leftmost position that has one
Match(url) ==
  IF \E p \in 1..Len(url) : MatchAt(url, p) # NoMatch
    THEN MatchAt(url, CHOOSE p \in 1..Len(url) :
                        /\ MatchAt(url, p) # NoMatch
                        /\ \A q \in 1..(p - 1) : MatchAt(url, q) = NoMatch)
    ELSE NoMatch

\* the canonicalizer without the lower-casing of owner and repository
normalizeCaseKept(url) ==
  IF url = NoString THEN NoUrl
  ELSE LET found == Match(ReplacePrefix(ReplacePrefix(url, GitPlusPrefix, NoString),
                                        SshPrefix, HttpsGithub))
       IN IF found = NoMatch THEN NoUrl
          ELSE HttpsGithub \o found.owner \o <<"/">>
                 \o StripSuffix(found.repo, DotGit)

\* base.ts:73-97
normalizeGitHubUrl(url) ==
  IF url = NoString THEN NoUrl
  ELSE LET found == Match(ReplacePrefix(ReplacePrefix(url, GitPlusPrefix, NoString),
                                        SshPrefix, HttpsGithub))
       IN IF found = NoMatch THEN NoUrl
          ELSE HttpsGithub \o ToLowerCase(found.owner) \o <<"/">>
                 \o StripSuffix(ToLowerCase(found.repo), DotGit)

\* the owners and the repository names of the model, as the code host spells
\* them: a name may hold a dot
Owners == {<<"f">>, <<"F", "o">>}

RepoNames == {<<"o">>, <<"O", "f">>, <<"o", ".", "f">>, <<".", "o">>}

UpperChar(ch) ==
  CASE ch = "f" -> "F"
    [] ch = "o" -> "O"
    [] OTHER -> ch

ToUpperCase(s) == [i \in 1..Len(s) |-> UpperChar(s[i])]

\* the forms a reference to owner/repo is written in
Forms ==
  {"httpsMixedGit", "gitPlus", "ssh", "subPath", "hostCapitals",
   "sshNoScheme", "empty"}

\* the forms base.ts:76-81 lists, the first with its owner and repository
\* in capitals
ListedForms == {"httpsMixedGit", "gitPlus", "ssh", "subPath"}

FormUrl(form, owner, repo) ==
  CASE form = "httpsMixedGit" ->
         HttpsGithub \o ToUpperCase(owner) \o <<"/">> \o ToUpperCase(repo) \o DotGit
    [] form = "gitPlus" ->
         GitPlusPrefix \o HttpsGithub \o owner \o <<"/">> \o repo \o DotGit
    [] form = "ssh" -> SshPrefix \o owner \o <<"/">> \o repo \o DotGit
    [] form = "subPath" ->
         HttpsGithub \o owner \o <<"/">> \o repo \o <<"/", "t", "r", "e", "e", "/", "m">>
    [] form = "hostCapitals" ->
         Https \o <<"G", "i", "t", "H", "u", "b", ".", "c", "o", "m", "/">>
           \o owner \o <<"/">> \o repo
    [] form = "sshNoScheme" -> GithubCom \o <<":">> \o owner \o <<"/">> \o repo \o <<"#", "m">>
    [] form = "empty" -> NoString

\* normalize has not been applied yet
Pending == <<"pending">>

NzIdle(owner, repo) ==
  [owner |-> owner, repo |-> repo,
   once |-> [form \in Forms |-> Pending],
   twice |-> [form \in Forms |-> Pending],
   github |-> Pending, sitemap |-> Pending]

\* no URL is modelled
NzOff == [pc |-> "off"]

\* normalizeGitHubUrl(url) for one form of the reference
NzNormalize(form) ==
  /\ nz.once[form] = Pending
  /\ nz' = [nz EXCEPT !.once[form] =
                        normalizeGitHubUrl(FormUrl(form, nz.owner, nz.repo))]
  /\ UNCHANGED <<vars, hs, sy, mg, ad>>

\* normalizeGitHubUrl applied to what it answered: parseGitHubUrl on a
\* canonical URL (pulsemcp.ts:190)
NzAgain(form) ==
  /\ nz.once[form] # Pending
  /\ nz.twice[form] = Pending
  /\ nz' = [nz EXCEPT !.twice[form] = normalizeGitHubUrl(nz.once[form])]
  /\ UNCHANGED <<vars, hs, sy, mg, ad>>

\* the code-host adapter's canonicalUrl for the repository, from the
\* login and the name the search reports (GitHubSource.fetchServers)
GithubCanonicalUrl(owner, repo) ==
  HttpsGithub \o ToLowerCase(owner) \o <<"/">> \o ToLowerCase(repo)

\* glama.ts:63-67: the canonicalUrl of a sitemap entry @owner/repo
SitemapCanonicalUrl(owner, repo) == HttpsGithub \o owner \o <<"/">> \o repo

\* the code-host adapter emits the record of the repository
NzEmitGithub ==
  /\ nz.github = Pending
  /\ nz' = [nz EXCEPT !.github = GithubCanonicalUrl(nz.owner, nz.repo)]
  /\ UNCHANGED <<vars, hs, sy, mg, ad>>

\* glama.ts:57-84: the sitemap phase emits the record of the repository
NzEmitSitemap ==
  /\ nz.sitemap = Pending
  /\ nz' = [nz EXCEPT !.sitemap = SitemapCanonicalUrl(nz.owner, nz.repo)]
  /\ UNCHANGED <<vars, hs, sy, mg, ad>>

\* deduplication.ts:149: the key a record is grouped under
GroupKey(canonicalUrl) == ToLowerCase(canonicalUrl)

(***************************************************************************)
(* The source adapters: one run of fetchServers over one page of upstream  *)
(* items (npm.ts, glama.ts with its sitemap phase, pulsemcp.ts from its    *)
(* cache and scraping live), and the batches the run yields.               *)
(***************************************************************************)
\* items of one page, entries of the sitemap
MaxItems == 2

\* pulsemcp.ts:174
BATCH_SIZE == 100

Runs == {"npm", "glama", "pulsemcp-cache", "pulsemcp-live"}

\* what becomes of an upstream item: a record, a skip by a filter or as a
\* duplicate, an exception inside the try of npm.ts:65-135
ItemKinds(run) ==
  IF run = "npm" THEN {"ok", "filtered", "throws"} ELSE {"ok", "filtered"}

\* a sitemap entry gives a record, or is passed over by a continue
\* (glama.ts:61, :65, :71)
EntryKinds == {"ok", "skipped"}

\* options.limit; 0 is no limit
Limits == 0..MaxItems

RECURSIVE KindSeqs(_, _)
KindSeqs(kinds, n) ==
  IF n = 0 THEN {<< >>}
  ELSE LET shorter == KindSeqs(kinds, n - 1)
       IN shorter \cup {Append(q, k) : q \in shorter, k \in kinds}

NoBatch == [servers |-> 0, fetched |-> 0, filtered |-> 0, errors |-> 0,
            examined |-> 0, yielded |-> FALSE]

\* a yielded batch: the number of its records, its stats, and the number of
\* upstream items the run examined for it
Batch(records, fetched, filtered, errors, examined) ==
  [servers |-> records, fetched |-> fetched, filtered |-> filtered,
   errors |-> errors, examined |-> examined, yielded |-> TRUE]

AdIdle(run, limit, items, entries) ==
  [run |-> run, limit |-> limit, items |-> items, pageLength |-> Len(items),
   entries |-> entries, pc |-> "page", servers |-> 0, filtered |-> 0,
   errors |-> 0, totalFetched |-> 0, examined |-> 0, batch |-> NoBatch]

\* no adapter is modelled
AdOff == [pc |-> "off"]

LimitReached(a) == a.limit # 0 /\ a.totalFetched >= a.limit

\* npm.ts:64-136 and glama.ts:143-182 for one item: a filter counts it, an
\* exception counts it, a record is pushed; at the limit the batch is yielded
\* with the number of records of the whole run as its fetched
PageItem(a, kind) ==
  LET b == [a EXCEPT !.items = Tail(a.items), !.examined = @ + 1]
  IN IF kind = "filtered" THEN [b EXCEPT !.filtered = @ + 1]
     ELSE IF kind = "throws" THEN [b EXCEPT !.errors = @ + 1]
     ELSE LET c == [b EXCEPT !.servers = @ + 1, !.totalFetched = @ + 1]
          IN IF LimitReached(c)
               THEN [c EXCEPT !.pc = "done",
                              !.batch = Batch(c.servers, c.totalFetched,
                                              c.filtered, c.errors, c.examined)]
               ELSE c

\* pulsemcp.ts:177-221 for one cached server: a record is pushed onto the
\* batch, a full batch is yielded with filtered 0, the loop ends at the limit
CacheItem(a, kind) ==
  LET b == [a EXCEPT !.items = Tail(a.items), !.examined = @ + 1]
  IN IF kind = "filtered" THEN [b EXCEPT !.filtered = @ + 1]
     ELSE LET c == [b EXCEPT !.servers = @ + 1, !.totalFetched = @ + 1]
              d == IF c.servers >= BATCH_SIZE
                     THEN [c EXCEPT !.servers = 0, !.examined = 0,
                                    !.batch = Batch(c.servers, c.servers, 0, 0,
                                                    c.examined)]
                     ELSE c
          IN IF LimitReached(d) THEN [d EXCEPT !.items = << >>] ELSE d

\* pulsemcp.ts:245-286 and :303-344 for one slug: a slug without a usable
\* repository is counted in a local, a record is yielded as a batch of its
\* own with filtered 0
LiveItem(a, kind) ==
  LET b == [a EXCEPT !.items = Tail(a.items), !.examined = @ + 1]
  IN IF kind = "filtered" THEN [b EXCEPT !.filtered = @ + 1]
     ELSE LET c == [b EXCEPT !.totalFetched = @ + 1, !.examined = 0,
                             !.batch = Batch(1, 1, 0, 0, b.examined)]
          IN IF LimitReached(c) THEN [c EXCEPT !.pc = "done"] ELSE c

\* the loop of the run takes the next item of the page
AdItem ==
  /\ ad.pc = "page" /\ ad.items # << >>
  /\ ad' = CASE ad.run \in {"npm", "glama"} -> PageItem(ad, Head(ad.items))
             [] ad.run = "pulsemcp-cache" -> CacheItem(ad, Head(ad.items))
             [] ad.run = "pulsemcp-live" -> LiveItem(ad, Head(ad.items))
  /\ UNCHANGED <<vars, hs, sy, mg, nz>>

\* the page is through.  npm.ts:138-146 and glama.ts:184-192 yield the batch
\* of the page, and glama goes on to its sitemap; pulsemcp.ts:224-231 yields
\* what is left of the batch, with the filtered count of the whole run; the
\* live scrape yields nothing more
AdPageEnd ==
  /\ ad.pc = "page" /\ ad.items = << >>
  /\ ad' =
       CASE ad.run \in {"npm", "glama"} ->
              [ad EXCEPT !.pc = IF ad.run = "glama" THEN "sitemap" ELSE "done",
                         !.examined = 0,
                         !.batch = Batch(ad.servers, ad.pageLength, ad.filtered,
                                         ad.errors, ad.examined)]
         [] ad.run = "pulsemcp-cache" ->
              IF ad.servers > 0
                THEN [ad EXCEPT !.pc = "done", !.examined = 0,
                                !.batch = Batch(ad.servers, ad.servers,
                                                ad.filtered, 0, ad.examined)]
                ELSE [ad EXCEPT !.pc = "done"]
         [] ad.run = "pulsemcp-live" -> [ad EXCEPT !.pc = "done"]
  /\ UNCHANGED <<vars, hs, sy, mg, nz>>

\* glama.ts:43-89: the records fetchFromSitemap returns
SitemapServers(entries) ==
  Cardinality({i \in 1..Len(entries) : entries[i] = "ok"})

Min(a, b) == IF a < b THEN a ELSE b

\* glama.ts:197-211: the sitemap phase and its one batch
AdSitemap ==
  /\ ad.pc = "sitemap"
  /\ LET found == SitemapServers(ad.entries)
         remaining == IF ad.limit # 0 THEN ad.limit - ad.totalFetched ELSE found
         toYield == Min(found, remaining)
     IN ad' = IF (ad.limit = 0 \/ ad.totalFetched < ad.limit) /\ found > 0
                THEN [ad EXCEPT !.pc = "done",
                                !.batch = Batch(toYield, toYield, found - toYield,
                                                0, Len(ad.entries))]
                ELSE [ad EXCEPT !.pc = "done"]
  /\ UNCHANGED <<vars, hs, sy, mg, nz>>

(***************************************************************************)
(* The system.                                                             *)
(***************************************************************************)
\* the orchestrator at rest: no request, no invocation, none to come
OrchestratorOff ==
  /\ servers = [s \in Servers |-> InitServer(CHOOSE cfg \in ServerConfigs : TRUE)]
  /\ requests = << >>
  /\ audit = EmptyBag
  /\ calls = EmptyBag
  /\ dispatched = EmptyBag
  /\ spawned = {}
  /\ budget = 0

Init ==
  /\ servers \in [Servers -> {InitServer(cfg) : cfg \in ServerConfigs}]
  /\ \E t \in InitTables :
       /\ requests = t.requests
       /\ audit = t.audit
       /\ dispatched = t.dispatched
  /\ calls = EmptyBag
  /\ spawned = {}
  /\ budget = MaxCalls
  /\ hs = HsOff
  /\ sy = SyOff
  /\ mg = MgOff
  /\ nz = NzOff
  /\ ad = AdOff

Next ==
  \/ \E user \in Sessions, serverId \in Servers, installCommand \in CustomCommands :
        CreateStart(user, serverId, installCommand)
  \/ \E c \in InFlight : CreateInsert(c)
  \/ \E user \in Sessions, id \in 1..MaxRequests, credentials \in CredentialInputs :
        SupplyStart(user, id, credentials)
  \/ \E c \in InFlight : SupplySetValidating(c)
  \/ \E c \in InFlight : SupplyRunLocal(c)
  \/ \E c \in InFlight : SupplyStoreResult(c)
  \/ \E c \in InFlight : SupplyUpdateServer(c)
  \/ \E c \in InFlight : SupplyStoreCiphertext(c)
  \/ \E c \in InFlight : SupplyTrigger(c)
  \/ \E c \in InFlight : SupplyRollback(c)
  \/ \E user \in Sessions, id \in 1..MaxRequests : CancelStart(user, id)
  \/ \E c \in InFlight : CancelSetCancelled(c)
  \/ \E user \in Users, id \in 1..MaxRequests, body \in AdminInputs :
        PatchStart(user, id, body.action, body.validationError)
  \/ \E c \in InFlight : PatchUpdate(c)
  \/ \E c \in InFlight : PatchUpdateServer(c)
  \/ \E id \in BagToSet(dispatched) : WorkerStart(id)
  \/ \E c \in InFlight : WorkerAbort(c)
  \/ \E c \in InFlight : WorkerExec(c)
  \/ \E c \in InFlight : WorkerClear(c)
  \/ \E c \in InFlight : WorkerStoreResult(c)
  \/ \E c \in InFlight : WorkerUpdateServer(c)
  \/ \E serverId \in Servers, slug, skipPython, requiresConfig \in BOOLEAN :
        BatchStart(serverId, slug, skipPython, requiresConfig)
  \/ \E c \in InFlight : BatchSkip(c)
  \/ \E c \in InFlight : BatchStore(c)
  \/ \E c \in InFlight : Respond(c)

\* the orchestrator alone: the other components are idle
Spec == Init /\ [][Next]_allvars


\* every step but the arrival of a new request: the handlers, the worker and
\* the batch validator run to their end once started, and a dispatched
\* workflow starts
Progress ==
  \/ \E c \in InFlight :
        \/ CreateInsert(c)
        \/ SupplySetValidating(c) \/ SupplyRunLocal(c)
        \/ SupplyStoreResult(c) \/ SupplyUpdateServer(c)
        \/ SupplyStoreCiphertext(c) \/ SupplyTrigger(c) \/ SupplyRollback(c)
        \/ CancelSetCancelled(c)
        \/ PatchUpdate(c) \/ PatchUpdateServer(c)
        \/ WorkerAbort(c) \/ WorkerExec(c) \/ WorkerClear(c)
        \/ WorkerStoreResult(c) \/ WorkerUpdateServer(c)
        \/ BatchSkip(c) \/ BatchStore(c) \/ Respond(c)
  \/ \E id \in BagToSet(dispatched) : WorkerStart(id)

FairSpec == Spec /\ WF_allvars(Progress)

\* one handshake attempt alone
HsInit ==
  /\ \E engine \in Engines, spawnMode \in SpawnModes, script \in Scripts(RequestIds) :
        hs = HsIdle(engine, spawnMode, script)
  /\ OrchestratorOff
  /\ sy = SyOff
  /\ mg = MgOff
  /\ nz = NzOff
  /\ ad = AdOff

HsNext ==
  \/ HsStart
  \/ HsSpawnError
  \/ HsScriptStart
  \/ HsData
  \/ HsExit
  \/ HsTimeout
  \/ HsKillTimer
  \/ HsScriptTimeout
  \/ HsDockerExit

HandshakeSpec == HsInit /\ [][HsNext]_allvars

\* the timers fire and the events of spawn and of the end of docker run are
\* delivered; a child need not write or end
HsProgress ==
  HsStart \/ HsSpawnError \/ HsScriptStart \/ HsTimeout \/ HsKillTimer
  \/ HsScriptTimeout \/ HsDockerExit

FairHandshakeSpec == HandshakeSpec /\ WF_allvars(HsProgress)

\* one handshake attempt alone, with a child that answers a request twice
HsRepeatInit ==
  /\ \E engine \in Engines, spawnMode \in SpawnModes, script \in RepeatScripts :
        hs = HsIdle(engine, spawnMode, script)
  /\ OrchestratorOff
  /\ sy = SyOff
  /\ mg = MgOff
  /\ nz = NzOff
  /\ ad = AdOff

RepeatHandshakeSpec == HsRepeatInit /\ [][HsNext]_allvars

\* the sync cycles alone
SyInit ==
  /\ sy = SyIdle([u \in Urls |-> NoRow])
  /\ OrchestratorOff
  /\ hs = HsOff
  /\ mg = MgOff
  /\ nz = NzOff
  /\ ad = AdOff

SyNext ==
  \/ SyRename
  \/ \E url \in Urls : SyValidated(url)
  \/ \E merged \in MergedSets, forceRefresh, validateNew \in BOOLEAN :
        SyStart(merged, forceRefresh, validateNew)
  \/ \E mergedServer \in MergedRecords, found \in BOOLEAN,
         outcome \in AutoValidationOutcomes :
        SyProcess(mergedServer, found, outcome)

SyncSpec == SyInit /\ [][SyNext]_allvars

\* the merge of one group alone
MgInit ==
  /\ mg \in {MgIdle(group) : group \in Groups}
  /\ OrchestratorOff
  /\ hs = HsOff
  /\ sy = SyOff
  /\ nz = NzOff
  /\ ad = AdOff

MgNext ==
  \/ MgMerge
  \/ \E group \in Orders(mg.servers) : MgMergePermuted(group)

MergeSpec == MgInit /\ [][MgNext]_allvars

\* the rows of the catalog the batch validator finds: those of ServerConfigs
\* and those of registry entries with a pypi package, foo or a;b, whose run
\* command is uvx IDENTIFIER (getInstallCommand of the registry adapter)
CatalogConfigs ==
  ServerConfigs
    \cup {[installCommand |-> CmdUvxFoo, packageName |-> PkgFoo],
          [installCommand |-> UvxPrefix \o PkgRegistrySemi,
           packageName |-> PkgRegistrySemi]}

\* the batch validator alone, on a host without docker
BatchInit ==
  /\ servers \in [Servers -> {InitServer(cfg) : cfg \in CatalogConfigs}]
  /\ requests = << >>
  /\ audit = EmptyBag
  /\ calls = EmptyBag
  /\ dispatched = EmptyBag
  /\ spawned = {}
  /\ budget = MaxCalls
  /\ hs = HsOff
  /\ sy = SyOff
  /\ mg = MgOff
  /\ nz = NzOff
  /\ ad = AdOff

BatchNext ==
  \/ \E serverId \in Servers, slug, skipPython, requiresConfig \in BOOLEAN :
        BatchStart(serverId, slug, skipPython, requiresConfig)
  \/ \E c \in InFlight : BatchSkip(c)
  \/ \E c \in InFlight : BatchStore(c)

BatchSpec == BatchInit /\ [][BatchNext]_allvars

\* one run of an adapter alone
AdInit ==
  /\ \E run \in Runs, limit \in Limits :
       \E items \in KindSeqs(ItemKinds(run), MaxItems),
          entries \in KindSeqs(EntryKinds, MaxItems) :
         /\ run # "glama" => entries = << >>
         /\ ad = AdIdle(run, limit, items, entries)
  /\ OrchestratorOff
  /\ hs = HsOff
  /\ sy = SyOff
  /\ mg = MgOff
  /\ nz = NzOff

AdNext ==
  \/ AdItem
  \/ AdPageEnd
  \/ AdSitemap

AdapterSpec == AdInit /\ [][AdNext]_allvars

\* the canonicalizer alone
NzInit ==
  /\ nz \in {NzIdle(owner, repo) : owner \in Owners, repo \in RepoNames}
  /\ OrchestratorOff
  /\ hs = HsOff
  /\ sy = SyOff
  /\ mg = MgOff
  /\ ad = AdOff

NzNext ==
  \/ \E form \in Forms : NzNormalize(form)
  \/ \E form \in Forms : NzAgain(form)
  \/ NzEmitGithub
  \/ NzEmitSitemap

NormalizeSpec == NzInit /\ [][NzNext]_allvars

(***************************************************************************)
(* Properties.                                                             *)
(***************************************************************************)
Rows == 1..Len(requests)

\* an invocation that is in flight after the step and was not before it
Arrives(c) == CopiesIn(c, calls') > CopiesIn(c, calls)

\* an invocation that takes the step
Leaves(c) == CopiesIn(c, calls') < CopiesIn(c, calls)

\* a request arrives in this step
Arrival == budget' < budget

\* C1: the status of a request only moves forward in the order pending,
\* validating, then completed, failed or cancelled (an admin may jump ahead
\* and may set approved or rejected); no earlier status is revisited, and a
\* status completed, failed or cancelled never changes again.
Rank(status) ==
  CASE status = "pending" -> 0
    [] status = "validating" -> 1
    [] OTHER -> 2

Forward(s, t) == s \notin Terminal /\ Rank(s) <= Rank(t)

ClaimC1 ==
  [][\A r \in Rows :
        requests'[r].status # requests[r].status =>
          Forward(requests[r].status, requests'[r].status)]_vars

\* C2: a request whose status is completed, failed or cancelled has no
\* ciphertext, and no invocation holds cleartext credentials it has yet to use
\* for it.
ClaimC2 ==
  \A r \in Rows :
     requests[r].status \in Terminal =>
       /\ requests[r].encryptedCredentials = NoCipher
       /\ \A c \in InFlight : c.rid = r => c.creds = << >>

\* C3: at most one request is in status validating for a (target, requester)
\* pair.
Validating(serverId, userId) ==
  {r \in Rows : /\ requests[r].status = "validating"
                /\ requests[r].serverId = serverId
                /\ requests[r].userId = userId}

ClaimC3 ==
  \A serverId \in Servers, userId \in Users :
     Cardinality(Validating(serverId, userId)) <= 1

\* C4: a well-formed create by requester R for target T that arrives while a
\* request of R for T is pending returns the id of such a pending request,
\* inserts no row and writes no audit entry; and an id returned as existing is
\* always the id of a pending request of the same requester.
PendingOf(userId, serverId) ==
  {r \in Rows : /\ requests[r].status = "pending"
                /\ requests[r].userId = userId
                /\ requests[r].serverId = serverId}

TheoremC4 ==
  [][Arrival =>
       \A c \in BagToSet(calls') :
          (Arrives(c) /\ c.kind = "create" /\ c.code \notin {400, 401}) =>
             /\ PendingOf(c.user, c.arg) # {} => c.pc = "respond"
             /\ c.pc = "respond" =>
                  /\ c.code = 200
                  /\ c.rid \in PendingOf(c.user, c.arg)
                  /\ UNCHANGED db]_vars

WitnessC4 ==
  \E c \in InFlight :
     /\ c.kind = "create" /\ c.pc = "respond" /\ c.code = 200
     /\ c.rid \in PendingOf(c.user, c.arg)
     /\ Len(requests) = 1
     /\ BagCardinality(audit) = 1

\* C5: every request that enters validating eventually leaves it for a
\* status in which it rests (completed, failed or cancelled, or the approved or
\* rejected an admin sets), when every started handler and every dispatched
\* worker runs on.
Resting == Terminal \cup {"approved", "rejected"}

ClaimC5 ==
  \A r \in 1..MaxRequests :
     (r \in Rows /\ requests[r].status = "validating")
        ~> (r \in Rows /\ requests[r].status \in Resting)

\* C6 as claimed: whenever the worker has run the candidate of a request, it
\* has cleared the ciphertext of the request before.
Executed(c) == c.result # NoResult

ClaimC7 == \A s \in spawned : ~HasForbidden(s.command)

\* C8: the custom run command of an accepted request names, right after its
\* npx -y or uvx prefix, the package the target declares.
ClaimC8 ==
  \A r \in Rows :
     LET command == requests[r].installCommand
         packageName == servers[requests[r].serverId].packageName
     IN (command # NoString /\ packageName # NoString) =>
          ToLowerCase(CommandPackage(command)) = ToLowerCase(packageName)

\* C9: a supply-secrets or cancel request of an authenticated user who did
\* not create the request is answered 403 in the step in which it arrives, and
\* that step leaves the requests, the servers and the audit log as they were;
\* only the submitter has an invocation past that check.
NotSubmitter(c) ==
  /\ c.kind \in {"supply", "cancel"}
  /\ c.user \in Users
  /\ c.rid \in Rows
  /\ requests[c.rid].userId # c.user

TheoremC9 ==
  /\ [][Arrival =>
          \A c \in BagToSet(calls') :
             (Arrives(c) /\ NotSubmitter(c)) =>
                (c.pc = "respond" /\ c.code = 403 /\ UNCHANGED db)]_vars
  /\ [](\A c \in InFlight : NotSubmitter(c) => c.pc = "respond")

WitnessC9 ==
  \E c \in InFlight :
     /\ NotSubmitter(c) /\ c.pc = "respond" /\ c.code = 403
     /\ requests[c.rid].status \in {"pending", "validating"}

\* C10: a cancel by the submitter is accepted exactly when the status it
\* reads is pending or validating, and is answered 400 with nothing changed
\* otherwise; the write of an accepted cancel changes only the status of that
\* request and adds one audit row, and it changes no server.
BySubmitter(c) ==
  /\ c.kind = "cancel"
  /\ c.rid \in Rows
  /\ requests[c.rid].userId = c.user

TheoremC10 ==
  [][/\ Arrival =>
          \A c \in BagToSet(calls') :
             (Arrives(c) /\ BySubmitter(c)) =>
                IF requests[c.rid].status \in {"pending", "validating"}
                  THEN c.pc = "setCancelled" /\ UNCHANGED db
                  ELSE c.pc = "respond" /\ c.code = 400 /\ UNCHANGED db
     /\ \A c \in InFlight :
          (c.kind = "cancel" /\ Leaves(c)) =>
             IF c.pc = "setCancelled"
               THEN /\ requests' = [requests EXCEPT ![c.rid].status = "cancelled"]
                    /\ BagCardinality(audit') = BagCardinality(audit) + 1
                    /\ UNCHANGED servers
               ELSE UNCHANGED db]_vars

WitnessC10 ==
  \E c \in InFlight :
     /\ BySubmitter(c) /\ c.pc = "respond" /\ c.code = 400
     /\ requests[c.rid].status \in Terminal
     /\ \E r \in Rows : requests[r].status = "cancelled"

(***************************************************************************)
(* Properties of the handshake engine.                                     *)
(***************************************************************************)
\* the replies the validator has read
Read(m) == \E i \in 1..Len(hs.stdout) : hs.stdout[i] = m

Answered(id) == Read(Reply(id, "result")) \/ Read(Reply(id, "error"))

\* the child answered initialize with a result and each list request with a
\* result or an error
Complete == Read(Reply(1, "result")) /\ \A id \in 2..4 : Answered(id)

\* the list a complete handshake reports for a request
ListOf(id) == IF Read(Reply(id, "error")) THEN << >> ELSE Reply(id, "result").list

Reports(r) ==
  /\ r.success
  /\ r.tools = ListOf(2)
  /\ r.resources = ListOf(3)
  /\ r.prompts = ListOf(4)

\* the attempt ended for a reason outside the handshake
EndedOutside ==
  hs.outcome.error \in {ErrTimeout, ErrExit, ErrSpawn, ErrException,
                        ErrDockerTimeout, ErrDocker}

\* C11: whatever the child writes (each request answered at most once, in
\* any order and in any split into data events), once an error reply to
\* initialize is read the attempt fails, and once a result for initialize and
\* a result or an error for each of tools/list, resources/list and
\* prompts/list are read the attempt succeeds, with the empty list for every
\* request answered by an error and the list of the reply for the others.
TheoremC11 ==
  /\ Read(Reply(1, "error")) =>
       /\ hs.engine = "direct" => hs.resolved
       /\ hs.engine = "docker" => hs.container = "exited" /\ ~hs.printed.success
       /\ hs.resolved => ~hs.outcome.success
  /\ Complete =>
       /\ hs.engine = "direct" => hs.resolved
       /\ hs.engine = "docker" => hs.container = "exited" /\ Reports(hs.printed)
       /\ (hs.resolved /\ ~EndedOutside) => Reports(hs.outcome)
  /\ hs.outcome.success => Complete

\* the child answers resources/list with an error and the attempt succeeds
WitnessC11 ==
  /\ hs.resolved /\ hs.outcome.success
  /\ Read(Reply(3, "error"))
  /\ hs.outcome.resources = << >>
  /\ hs.outcome.tools = <<"item">>

\* C12: an attempt that was started is eventually resolved; and when it is
\* resolved without a reply read from a child that was spawned and had not
\* ended before, the result is a failure whose error text mentions the
\* timeout, and a termination signal was sent: SIGTERM to the child, or
\* SIGKILL to docker run.
MentionsTimeout(error) ==
  error \in {ErrTimeout, ErrScriptTimeout, ErrDockerTimeout}

SilentChild ==
  /\ hs.stdout = << >>
  /\ hs.spawnMode = "ok"
  /\ hs.child # "none"
  /\ ~hs.earlyExit

TheoremC12 ==
  /\ (hs.pc = "running") ~> hs.resolved
  /\ []((hs.resolved /\ SilentChild) =>
          /\ ~hs.outcome.success
          /\ MentionsTimeout(hs.outcome.error)
          /\ "SIGTERM" \in hs.signals \/ "SIGKILL" \in hs.cliSignals)

WitnessC12 ==
  /\ hs.engine = "direct"
  /\ hs.resolved /\ SilentChild
  /\ hs.timeout = "fired"
  /\ hs.outcome.error = ErrTimeout
  /\ "SIGTERM" \in hs.signals

\* C13: a child that ends, with any exit code or by a signal, before the
\* handshake is complete is reported as an unexpected exit, not as a timeout.
ClaimC13 ==
  (hs.engine = "direct" /\ hs.resolved /\ hs.earlyExit) =>
     hs.outcome.error = ErrExit

\* C14: an attempt that has produced its result has sent the graceful signal
\* to a process it spawned that is still alive, with the forceful one to
\* follow after the grace period; the forceful signal is never the first.
ClaimC14 ==
  hs.resolved =>
    /\ (hs.child = "alive" /\ hs.engine = "direct") =>
          ("SIGTERM" \in hs.signals /\ hs.killTimer \in {"armed", "fired"})
    /\ "SIGKILL" \in hs.signals => "SIGTERM" \in hs.signals
    /\ hs.cli = "alive" => "SIGTERM" \in hs.cliSignals
    /\ "SIGKILL" \in hs.cliSignals => "SIGTERM" \in hs.cliSignals

\* the target of a store step: the row a batch run was started for, or the
\* row the request of a handler or worker points to
TargetOf(c) == IF c.kind = "batch" THEN c.arg ELSE requests[c.rid].serverId

\* the step in which an invocation writes a successful result to its target
StoresSuccess(c) ==
  /\ Leaves(c)
  /\ c.result.success
  /\ \/ c.kind \in {"supply", "worker"} /\ c.pc = "updateServer"
     \/ c.kind = "batch" /\ c.pc = "store"

\* C15: after an attempt ends with success the target is validated, its
\* timestamp is refreshed and its tool, resource and prompt lists equal the
\* lists of the result, also where a list of the result is empty.
ClaimC15 ==
  [][\A c \in InFlight :
       StoresSuccess(c) =>
         LET before == servers[TargetOf(c)]
             after == servers'[TargetOf(c)]
         IN /\ after.validationStatus = "validated"
            /\ after.validatedAt > before.validatedAt
            /\ after.tools = c.result.tools
            /\ after.resources = c.result.resources
            /\ after.prompts = c.result.prompts]_vars

\* the step in which an invocation writes a failed result
StoresFailure(c) ==
  /\ Leaves(c)
  /\ Executed(c) /\ ~c.result.success
  /\ \/ c.kind \in {"supply", "worker"} /\ c.pc = "storeResult"
     \/ c.kind = "batch" /\ c.pc = "store"

\* C16: after an attempt ends with failure the target has status failed and
\* holds the error text, and its tool, resource and prompt lists are the ones
\* it had before.
ClaimC16 ==
  [][\A c \in InFlight :
       StoresFailure(c) =>
         LET before == servers[TargetOf(c)]
             after == servers'[TargetOf(c)]
         IN /\ after.validationStatus = "failed"
            /\ after.validationError = c.result.error
            /\ after.tools = before.tools
            /\ after.resources = before.resources
            /\ after.prompts = before.prompts]_vars

\* request r is created or changes its status in this step
Transition(r) ==
  \/ r > Len(requests)
  \/ r <= Len(requests) /\ requests'[r].status # requests[r].status

\* the invocation that made the transition of r is still running and writes
\* the audit row after its update of the target
AuditPending(r) ==
  \E c \in BagToSet(calls') :
    Arrives(c) /\ c.rid = r /\ c.pc = "updateServer"

\* C17: every status transition of a request (its creation included) appends
\* exactly one audit row for it, and no audit row is ever updated or deleted.
ClaimC17 ==
  /\ [][\A r \in 1..Len(requests') :
          Transition(r) =>
            \/ \E row \in BagToSet(audit') :
                 /\ row.validationId = r
                 /\ audit' = audit (+) One(row)
            \/ audit' = audit /\ AuditPending(r)]_vars
  /\ [][audit \sqsubseteq audit']_vars

\* processServer ran for one record in this step
Processes == sy'.processed = sy.processed + 1

\* C18: when a cycle processes a record whose entity is validated and stores
\* a version, and the record reports another version, one pending request
\* for the entity is appended and the requests that exist are left alone.
ClaimC18 ==
  [][(Processes /\ ~sy'.last.skipped) =>
       LET before == sy.servers[sy'.last.url]
       IN (/\ Exists(before)
           /\ before.validationStatus = "validated"
           /\ before.latestVersion # Null
           /\ sy'.last.version # Undefined
           /\ sy'.last.version # before.latestVersion)
          => sy'.requests = Append(sy.requests, QueuedRequest(before))]_allvars

\* C19: after processServer saw the lookup answer with another owner/repo,
\* the catalog does not hold an entity under the old and one under the new
\* URL; where the new URL was in the catalog when the cycle started the
\* record was dropped.
ClaimC19 ==
  [][(Processes /\ sy'.last.redirected) =>
       /\ ~(Exists(sy'.servers[OldUrl]) /\ Exists(sy'.servers[NewUrl]))
       /\ Exists(sy.existingByUrl[NewUrl]) => sy'.servers = sy.servers]_allvars

\* C20: merging a group in any two orders gives the same MergedServer in
\* every field, the sources and the payloads per source included.
ClaimC20 ==
  (mg.merged # NoMerged /\ mg.mergedPermuted # NoMerged)
    => mg.merged = mg.mergedPermuted

\* the records of the group that come from the code host and report stars
GithubStars ==
  {i \in 1..Len(mg.servers) :
     mg.servers[i].source = "github" /\ mg.servers[i].stars # Undefined}

\* C21: when the group holds a github record that reports stars, the merged
\* stars are the stars of a github record, whatever the other records report
\* and wherever the github record stands in the order of priority.
TheoremC21 ==
  (mg.merged # NoMerged /\ GithubStars # {})
    => \E i \in GithubStars : mg.merged.stars = mg.servers[i].stars

\* a merged group whose first record, of another source, reports other stars
\* than the github record behind it
WitnessC21 ==
  /\ mg.merged # NoMerged
  /\ Len(mg.servers) = 2
  /\ mg.servers[1].source = "pulsemcp"
  /\ mg.servers[1].stars = "500"
  /\ mg.servers[2].source = "github"
  /\ mg.servers[2].stars = "1"
  /\ mg.merged.stars = "1"

\* the value of the first record of a sequence that defines a field
RECURSIVE FirstDefined(_, _)
FirstDefined(records, name) ==
  IF records = << >> THEN Undefined
  ELSE IF Head(records)[name] # Undefined THEN Head(records)[name]
  ELSE FirstDefined(Tail(records), name)

\* no source of the field's override list defines the field
NoOverride(name) ==
  \A k \in 1..Len(FIELD_PRIORITY[name]) :
    \A i \in 1..Len(mg.servers) :
      mg.servers[i].source = FIELD_PRIORITY[name][k]
        => mg.servers[i][name] = Undefined

\* C22: a field no override sets has the value of the first record, in the
\* order of source priority, that defines it, a defined 0 included.
ClaimC22 ==
  mg.merged # NoMerged =>
    \A name \in {"version", "stars"} :
      NoOverride(name) =>
        mg.merged[name] = FirstDefined(SortByPriority(mg.servers), name)

(***************************************************************************)
(* Properties of the canonicalizer.                                        *)
(***************************************************************************)
\* C23: a URL that normalizes to a string normalizes again to that string,
\* and the HTTPS form in mixed case with a .git suffix, the git+ form, the
\* SSH form and the form with a sub-path of one owner/repo normalize alike.
TheoremC23 ==
  /\ \A form \in Forms :
       (nz.once[form] # NoUrl /\ nz.twice[form] # Pending)
         => nz.twice[form] = nz.once[form]
  /\ \A form, other \in ListedForms :
       (nz.once[form] # Pending /\ nz.once[other] # Pending)
         => nz.once[form] = nz.once[other]

\* the four listed forms of Fo/Of were normalized to one string, and that
\* string was normalized again
WitnessC23 ==
  /\ nz.owner = <<"F", "o">>
  /\ nz.repo = <<"O", "f">>
  /\ \A form \in ListedForms :
       nz.once[form] = HttpsGithub \o <<"f", "o", "/", "o", "f">>
  /\ nz.twice["httpsMixedGit"] # Pending

\* the canonical URLs of the records emitted for the repository: what the
\* adapters that call normalizeGitHubUrl made of a reference (the registry
\* adapter, npm.ts:95, glama.ts:145, pulsemcp.ts:178), and what the code-host
\* adapter and the sitemap phase built
EmittedUrls ==
  ({nz.once[form] : form \in Forms} \cup {nz.github, nz.sitemap})
    \ {Pending, NoUrl}

\* C30: the canonicalUrl of every emitted record is a fixed point of the
\* canonicalizer, and the records emitted for one repository fall into one
\* group.
ClaimC30 ==
  /\ \A url \in EmittedUrls : normalizeGitHubUrl(url) = url
  /\ \A url, other \in EmittedUrls : GroupKey(url) = GroupKey(other)

(***************************************************************************)
(* Properties of the environment of the candidate.                         *)
(***************************************************************************)
\* C25: the candidate receives no variable of the host: under docker its
\* environment is the supplied variables and the run command variable, and a
\* directly spawned child receives none of the host's variables either.
ClaimC25 ==
  /\ hs.engine = "docker" => hs.env \subseteq DockerEnv
  /\ hs.env \cap HostEnvironment = {}

(***************************************************************************)
(* Properties of the run of Python commands.                               *)
(***************************************************************************)
\* C24: no child is spawned directly for a run command that starts with
\* uvx or python: without docker such a command is refused.
ClaimC24 ==
  \A child \in spawned :
    child.via = "direct" => ~isPythonCommand(child.command)

(***************************************************************************)
(* Properties of the adapters.                                             *)
(***************************************************************************)
\* C26: in every batch an adapter yields, the upstream items examined for
\* the batch are its records, its filtered count and its errors count
\* together, and its fetched count is the number of the items examined.
ClaimC26 ==
  ad.batch.yielded =>
    /\ ad.batch.examined = ad.batch.servers + ad.batch.filtered + ad.batch.errors
    /\ ad.batch.fetched = ad.batch.examined

(***************************************************************************)
(* Properties of the order of the handshake.                               *)
(***************************************************************************)
\* the requests of a complete handshake, in the order they are written
Handshake ==
  <<[method |-> "initialize", id |-> 1],
    [method |-> "notifications/initialized", id |-> 0],
    [method |-> "tools/list", id |-> 2],
    [method |-> "resources/list", id |-> 3],
    [method |-> "prompts/list", id |-> 4]>>

\* the child has answered initialize with a result
InitializeAnswered ==
  \E i \in 1..Len(hs.stdout) : hs.stdout[i] = Reply(1, "result")

\* C27: what the engine has written is nothing before its child is spawned,
\* then initialize with id 1 alone, and after a result for id 1 the
\* notification and the three list requests with ids 2, 3 and 4 in that
\* order, each once; without a result for id 1 none of them is written.
TheoremC27 ==
  /\ hs.sent \in {<< >>, SubSeq(Handshake, 1, 1), Handshake}
  /\ hs.child \in {"alive", "exited"} => hs.sent # << >>
  /\ ~InitializeAnswered => Len(hs.sent) <= 1

\* the whole handshake was written, and the output was parsed again after it
WitnessC27 ==
  /\ hs.sent = Handshake
  /\ Len(hs.stdout) >= 3
  /\ hs.stdout[1] = Reply(1, "result")

(***************************************************************************)
(* Properties of the result of an attempt.                                 *)
(***************************************************************************)
\* C28: the result of an attempt, once produced, is what the caller holds
\* whatever arrives later; and it is a success only when initialize was
\* answered with a result and each of the ids 2, 3 and 4 was answered.
ClaimC28 ==
  /\ hs.resolved => hs.held = hs.outcome
  /\ (hs.resolved /\ hs.outcome.success)
       => Complete

(***************************************************************************)
(* Properties of concurrent supply-secrets calls.                          *)
(***************************************************************************)
\* a supply-secrets call on the request that has run the candidate and not
\* yet answered: docker-validator refused nothing and a process was started
RanLocal(c, id) ==
  /\ c.kind = "supply" /\ c.rid = id
  /\ c.pc \in {"storeResult", "updateServer"}
  /\ c.result # ResultPythonNeedsDocker

\* the executions started for the request that have not ended yet: local
\* runs whose result is not stored yet and workflow runs not yet picked up
Executions(id) ==
  BagCardinality([c \in {d \in InFlight : RanLocal(d, id)} |-> CopiesIn(c, calls)])
  + CopiesIn(id, dispatched)

\* C29: for one request the backend is started, or the workflow triggered,
\* at most once, however the supply-secrets calls of its requester
\* interleave: no request has two executions started for it.
ClaimC29 == \A id \in 1..Len(requests) : Executions(id) <= 1

====
